---- MODULE Spec2Model ----
(***************************************************************************)
(* chamelo: k-means colour extraction (worker implementation), the banner  *)
(* colour selection of colorHarmony.ts, the shared-worker dispatch of      *)
(* colorExtractorWorker and the useColorExtraction hook.                   *)
(*                                                                         *)
(* Sequences are 1-based here; the JavaScript arrays are 0-based.  Index i *)
(* of the source is index i+1 of the model.                                *)
(***************************************************************************)
EXTENDS Integers, Sequences, FiniteSets, TLC

VARIABLES
    pc,           \* position of the extraction: start, init, seed, lloyd, rank, done, error
    imageData,    \* the RGBA buffer handed to extractColorsFromImageData
    options,      \* { colorCount, quality, maxIterations, sampleSize }
    pixels,       \* the sample list (getPixelsFromImageData)
    centroids,    \* kMeansClustering: let centroids
    assignments,  \* kMeansClustering: let assignments
    counts,       \* kMeansClustering: let counts
    iteration,    \* kMeansClustering: loop counter
    steps,        \* number of assignToClusters calls made so far
    rounds,       \* number of passes of the seeding while loop made so far
    colors,       \* the returned palette
    thrown,       \* name of the exception that ended the extraction, or "none"
    draws,        \* the values Math.random gave the seeding so far, as the code uses them
    runs,         \* the extractions that returned: input, draws and result of each
    \* colorHarmony.ts
    harmonyCall,      \* the function of colorHarmony.ts that returned last, or "none"
    bannerPalette,  \* generateBannerColors: the palette argument
    bannerOptions,    \* generateBannerColors: { preferDark, useGradient, gradientDirection }
    bannerColors,     \* generateBannerColors: the returned BannerColors
    readableBackground,  \* findReadableTextColor: the background argument
    readableMinContrast, \* findReadableTextColor: the ratio argument
    textColor,        \* findReadableTextColor: the returned colour
    gradientCss,      \* createGradient: the returned string
    \* colorExtractorWorker
    worker,           \* let worker: "null" or "worker"
    workerSupported,  \* let workerSupported: "null", "true" or "false"
    messageListeners, \* the calls whose handleMessage is registered, in order
    inbox,            \* messages posted to the worker and not yet handled
    outbox,           \* responses posted by the worker and not yet dispatched
    promises,         \* the promise of each extractColorsWithWorker call
    calls,            \* number of extractColorsWithWorker calls made
    running,          \* the call whose message the worker is handling, or 0
    \* useColorExtraction
    hookPhase,        \* "unmounted" (not rendered yet), "mounted" or "gone"
    imageSrc,         \* the imageSrc prop of the current render, "null" for null
    lastSrcRef,       \* lastSrcRef.current
    mountedRef,       \* mountedRef.current
    hookColors,       \* useState colors
    hookBannerColors, \* useState bannerColors, <<>> for null
    isLoading,        \* useState isLoading
    hookError,        \* useState error: "null" or the message of the Error
    extractions,      \* the extract() calls waiting on extractColors, oldest first
    started,          \* number of extractColors calls made by the hook
    settled,          \* the extract() call that completed last, and how
    colorsSrc         \* the imageSrc of the extract() call that set colors last

kmVars == <<pc, imageData, options, pixels, centroids, assignments, counts,
            iteration, steps, rounds, colors, thrown, draws, runs>>

harmonyVars == <<harmonyCall, bannerPalette, bannerOptions, bannerColors,
                 readableBackground, readableMinContrast, textColor, gradientCss>>

workerVars == <<worker, workerSupported, messageListeners, inbox, outbox,
                promises, calls, running>>

hookVars == <<hookPhase, imageSrc, lastSrcRef, mountedRef, hookColors,
              hookBannerColors, isLoading, hookError, extractions, started, settled,
              colorsSrc>>

vars == <<kmVars, harmonyVars, workerVars, hookVars>>

-----------------------------------------------------------------------------
(* Bounds of the model *)

MaxPixelCount == 3
MaxColorCount == 3
MaxIterations == 3
MaxPaletteLen == 2
MaxCalls == 2
MaxExtractions == 2
MaxRuns == 3

-----------------------------------------------------------------------------
(* Generic helpers *)

Min2(a, b) == IF a <= b THEN a ELSE b
Max2(a, b) == IF a >= b THEN a ELSE b

RECURSIVE SumSeq(_)
SumSeq(s) == IF s = <<>> THEN 0 ELSE Head(s) + SumSeq(Tail(s))

\* Math.round(n / d) for n >= 0, d > 0: nearest integer, halves upwards
RoundDiv(n, d) == (2 * n + d) \div (2 * d)

-----------------------------------------------------------------------------
(* Colours *)

RGBOf(r, g, b) == [r |-> r, g |-> g, b |-> b]
RGBAOf(r, g, b, a) == [r |-> r, g |-> g, b |-> b, a |-> a]

HexDigits == <<"0", "1", "2", "3", "4", "5", "6", "7",
               "8", "9", "a", "b", "c", "d", "e", "f">>

\* rgbToHex.toHex: clamp to 0..255, two lower-case hexadecimal digits
toHex(n) ==
    LET c == Max2(0, Min2(255, n))
    IN  HexDigits[(c \div 16) + 1] \o HexDigits[(c % 16) + 1]

rgbToHex(rgb) == "#" \o toHex(rgb.r) \o toHex(rgb.g) \o toHex(rgb.b)

\* colorDistance squared.  The code compares Math.sqrt of this value; sqrt is
\* strictly monotone on the integers 0..195075, so the order is the same.
colorDistanceSq(c1, c2) ==
    (c1.r - c2.r) * (c1.r - c2.r) +
    (c1.g - c2.g) * (c1.g - c2.g) +
    (c1.b - c2.b) * (c1.b - c2.b)

-----------------------------------------------------------------------------
(* Pixel sampler *)

\* Math.floor(a / b) for b # 0
FloorDiv(a, b) == IF b > 0 THEN a \div b ELSE (0 - a) \div (0 - b)

\* samplingStep without the quality factor
samplingStepIgnoresQuality(pixelCount, quality, sampleSize) ==
    IF sampleSize = 0 THEN 0 ELSE Max2(1, FloorDiv(pixelCount, sampleSize))

\* The step of getPixelsFromImageData.  0 stands for a step that is Infinity
\* or NaN (sampleSize = 0, where pixelCount / sampleSize is Infinity or NaN):
\* the loop then visits pixel 0 only.  Math.max(1, -Infinity) is 1.
samplingStep(pixelCount, quality, sampleSize) ==
    IF sampleSize = 0
    THEN IF pixelCount > 0 /\ quality < 0 THEN 1 ELSE 0
    ELSE Max2(1, FloorDiv(pixelCount, sampleSize) * quality)

\* isRetained without the near-black exclusion
isRetainedKeepsBlack(p) ==
    /\ p.a >= 125
    /\ ~(p.r > 250 /\ p.g > 250 /\ p.b > 250)

isRetained(p) ==
    /\ p.a >= 125
    /\ ~(p.r > 250 /\ p.g > 250 /\ p.b > 250)
    /\ ~(p.r < 5 /\ p.g < 5 /\ p.b < 5)

RECURSIVE samplePixels(_, _, _)
samplePixels(data, i, step) ==
    IF i > Len(data) THEN <<>>
    ELSE LET here == IF isRetained(data[i])
                     THEN <<RGBOf(data[i].r, data[i].g, data[i].b)>>
                     ELSE <<>>
         IN  IF step = 0 THEN here
             ELSE here \o samplePixels(data, i + step, step)

getPixelsFromImageData(img, quality, sampleSize) ==
    samplePixels(img.data, 1,
                 samplingStep(img.width * img.height, quality, sampleSize))

-----------------------------------------------------------------------------
(* Exact fractions.  The code computes percentages, saturations and scores
   in double precision; the model keeps them as reduced fractions n/d, d > 0,
   which orders them as the doubles do except within rounding error of a tie. *)

RECURSIVE GCD(_, _)
GCD(a, b) == IF b = 0 THEN a ELSE GCD(b, a % b)

Abs(n) == IF n < 0 THEN -n ELSE n

Rat(n, d) ==
    LET g == GCD(Abs(n), Abs(d))
        s == IF d < 0 THEN -1 ELSE 1
    IN  [n |-> s * (n \div g), d |-> s * (d \div g)]

RatInt(i) == [n |-> i, d |-> 1]
RatMul(x, y) == Rat(x.n * y.n, x.d * y.d)
RatAdd(x, y) == Rat(x.n * y.d + y.n * x.d, x.d * y.d)
RatLess(x, y) == x.n * y.d < y.n * x.d
RatLeq(x, y) == x.n * y.d <= y.n * x.d

-----------------------------------------------------------------------------
(* k-means++ seeding *)

RECURSIVE minDistSqFrom(_, _, _)
minDistSqFrom(pixel, cs, i) ==
    IF i > Len(cs) THEN -1
    ELSE LET rest == minDistSqFrom(pixel, cs, i + 1)
             here == colorDistanceSq(pixel, cs[i])
         IN  IF rest = -1 THEN here ELSE Min2(here, rest)

\* distances[i] = minDist * minDist of the seeding loop
seedDistances(px, cs) == [i \in 1..Len(px) |-> minDistSqFrom(px[i], cs, 1)]

RECURSIVE prefixSum(_, _)
prefixSum(dist, i) == IF i = 0 THEN 0 ELSE dist[i] + prefixSum(dist, i - 1)

\* The inner for loop of a seeding round: the first index whose running sum
\* reaches random, 0 when the loop ends without a push.  random2 is twice
\* the value of random.
weightedPick(dist, random2) ==
    LET hits == {i \in 1..Len(dist) : 2 * prefixSum(dist, i) >= random2}
    IN  IF hits = {} THEN 0 ELSE CHOOSE i \in hits : \A j \in hits : i <= j

\* The values random = Math.random() * totalDistance can take, doubled, one
\* per outcome: 0, and for each sample at a positive distance a value half a
\* unit below its running sum.  All lie in [0, totalDistance).
RandomDraws(dist) ==
    {0} \cup {2 * prefixSum(dist, i) - 1 : i \in {j \in 1..Len(dist) : dist[j] > 0}}

\* seedRound with the fallback push made unconditionally
seedRoundAlwaysAppends(px, cs, k, random2) ==
    LET pick == weightedPick(seedDistances(px, cs), random2)
        cs1  == IF pick = 0 THEN cs ELSE Append(cs, px[pick])
    IN  Append(cs1, px[Len(px)])

\* seedRound with sum > random as the test of the draw, and no fallback
seedRoundStrictDraw(px, cs, k, random2) ==
    LET dist == seedDistances(px, cs)
        hits == {i \in 1..Len(dist) : 2 * prefixSum(dist, i) > random2}
    IN  IF hits = {} THEN cs
        ELSE Append(cs, px[CHOOSE i \in hits : \A j \in hits : i <= j])

\* One round of the while loop of initializeCentroidsKMeansPlusPlus
seedRound(px, cs, k, random2) ==
    LET pick == weightedPick(seedDistances(px, cs), random2)
        cs1  == IF pick = 0 THEN cs ELSE Append(cs, px[pick])
    IN  IF Len(cs1) < Min2(k, Len(px))
        THEN Append(cs1, px[Len(px)])
        ELSE cs1

-----------------------------------------------------------------------------
(* Lloyd iteration *)

RECURSIVE closestIndexFrom(_, _, _, _, _)
closestIndexFrom(pixel, cs, i, minDist, closest) ==
    IF i > Len(cs) THEN closest
    ELSE LET dist == colorDistanceSq(pixel, cs[i])
         IN  IF minDist = -1 \/ dist < minDist
             THEN closestIndexFrom(pixel, cs, i + 1, dist, i)
             ELSE closestIndexFrom(pixel, cs, i + 1, minDist, closest)

\* minDist -1 stands for Infinity; closestIndex starts at the first centroid
assignToClusters(px, cs) ==
    [i \in 1..Len(px) |-> closestIndexFrom(px[i], cs, 1, -1, 1)]

\* the test of the break that compares the lengths only
assignmentsSameLength(newAssignments, previous) ==
    Len(previous) > 0 /\ Len(newAssignments) = Len(previous)

\* kMeansClustering: the test of the break,
\* assignments.length > 0 && newAssignments.every((a, i) => a === assignments[i])
assignmentsUnchanged(newAssignments, previous) ==
    Len(previous) > 0 /\ newAssignments = previous

\* What updateCentroids throws: Array(k) with k < 0 is a RangeError, and
\* sums[clusterIndex].r with clusterIndex >= k a TypeError
updateThrows(px, asg, k) ==
    IF k < 0 THEN "RangeError"
    ELSE IF \E i \in 1..Len(px) : asg[i] > k THEN "TypeError"
    ELSE "none"

clusterMembers(asg, c) == {i \in 1..Len(asg) : asg[i] = c}

RECURSIVE channelSum(_, _, _)
channelSum(px, members, ch) ==
    IF members = {} THEN 0
    ELSE LET i == CHOOSE j \in members : TRUE
         IN  px[i][ch] + channelSum(px, members \ {i}, ch)

\* updateCentroids whose accumulation loop starts at the second sample
updateCentroidsSkipsFirst(px, asg, k) ==
    LET members(c) == clusterMembers(asg, c) \ {1}
        cnt == [c \in 1..k |-> Cardinality(members(c))]
        mean(c, ch) == RoundDiv(channelSum(px, members(c), ch), cnt[c])
    IN  [centroids |-> [c \in 1..k |->
                          IF cnt[c] = 0 THEN RGBOf(128, 128, 128)
                          ELSE RGBOf(mean(c, "r"), mean(c, "g"), mean(c, "b"))],
         counts |-> cnt]

\* updateCentroids with the means cut off, not rounded
updateCentroidsTruncates(px, asg, k) ==
    LET cnt == [c \in 1..k |-> Cardinality(clusterMembers(asg, c))]
        mean(c, ch) == channelSum(px, clusterMembers(asg, c), ch) \div cnt[c]
    IN  [centroids |-> [c \in 1..k |->
                          IF cnt[c] = 0 THEN RGBOf(128, 128, 128)
                          ELSE RGBOf(mean(c, "r"), mean(c, "g"), mean(c, "b"))],
         counts |-> cnt]

\* updateCentroids that returns the channel sums, not the means
updateCentroidsSums(px, asg, k) ==
    LET cnt == [c \in 1..k |-> Cardinality(clusterMembers(asg, c))]
        sum(c, ch) == channelSum(px, clusterMembers(asg, c), ch)
    IN  [centroids |-> [c \in 1..k |->
                          IF cnt[c] = 0 THEN RGBOf(128, 128, 128)
                          ELSE RGBOf(sum(c, "r"), sum(c, "g"), sum(c, "b"))],
         counts |-> cnt]

updateCentroids(px, asg, k) ==
    LET cnt == [c \in 1..k |-> Cardinality(clusterMembers(asg, c))]
        mean(c, ch) == RoundDiv(channelSum(px, clusterMembers(asg, c), ch), cnt[c])
    IN  [centroids |-> [c \in 1..k |->
                          IF cnt[c] = 0 THEN RGBOf(128, 128, 128)
                          ELSE RGBOf(mean(c, "r"), mean(c, "g"), mean(c, "b"))],
         counts |-> cnt]

-----------------------------------------------------------------------------
(* Palette ranking *)

Max3(a, b, c) == Max2(a, Max2(b, c))
Min3(a, b, c) == Min2(a, Min2(b, c))

\* HSL saturation; l > 0.5 is max + min > 255 on the 8-bit channels
getSaturation(rgb) ==
    LET max == Max3(rgb.r, rgb.g, rgb.b)
        min == Min3(rgb.r, rgb.g, rgb.b)
    IN  IF max = min THEN RatInt(0)
        ELSE IF max + min > 255 THEN Rat(max - min, 510 - max - min)
        ELSE Rat(max - min, max + min)

\* percentage * (0.7 + 0.3 * saturation)
paletteScore(c) ==
    RatMul(c.percentage,
           RatAdd(Rat(7, 10), RatMul(Rat(3, 10), getSaturation(c.rgb))))

\* insertByScore that puts an entry before the entries of equal score
RECURSIVE insertBeforeEqual(_, _)
insertBeforeEqual(sorted, c) ==
    IF sorted = <<>> THEN <<c>>
    ELSE IF RatLeq(paletteScore(Head(sorted)), paletteScore(c))
         THEN <<c>> \o sorted
         ELSE <<Head(sorted)>> \o insertBeforeEqual(Tail(sorted), c)

\* Array.prototype.sort with (a, b) => scoreB - scoreA: stable, descending
RECURSIVE insertByScore(_, _)
insertByScore(sorted, c) ==
    IF sorted = <<>> THEN <<c>>
    ELSE IF RatLess(paletteScore(Head(sorted)), paletteScore(c))
         THEN <<c>> \o sorted
         ELSE <<Head(sorted)>> \o insertByScore(Tail(sorted), c)

RECURSIVE sortByScore(_)
sortByScore(cs) ==
    IF cs = <<>> THEN <<>>
    ELSE insertByScore(sortByScore(SubSeq(cs, 1, Len(cs) - 1)), cs[Len(cs)])

\* the filter letting clusters without samples through
keepEveryCluster(c) == c.population >= 0

\* .filter(c => c.population > 0); a missing count is undefined, never > 0
keepPopulated(c) == c.population > 0

\* The map / filter / sort of extractColorsFromImageData.  population 0
\* stands for undefined too (counts shorter than centroids).
buildPalette(cs, cnt) ==
    LET totalPixels == SumSeq(cnt)
        entry(i) ==
            LET pop == IF i <= Len(cnt) THEN cnt[i] ELSE 0
            IN  [rgb |-> cs[i], hex |-> rgbToHex(cs[i]), population |-> pop,
                 percentage |-> IF totalPixels > 0
                                THEN Rat(pop * 100, totalPixels)
                                ELSE RatInt(0)]
        mapped == [i \in 1..Len(cs) |-> entry(i)]
    IN  sortByScore(SelectSeq(mapped, keepPopulated))

-----------------------------------------------------------------------------
(* Colour science: luminance and contrast (colorExtractor.ts) *)

\* The sRGB linearisation of getRelativeLuminance for each channel value
\* 0..255: c / 255 <= 0.03928 ? c / 12.92 : ((c + 0.055) / 1.055) ^ 2.4,
\* in units of 1/100000 (rounded).  Entry c + 1 is the value of channel c.
Linearized == <<
    0, 30, 61, 91, 121, 152, 182, 212, 243, 273, 304, 335,
    368, 402, 439, 478, 518, 561, 605, 651, 700, 750, 802, 857,
    913, 972, 1033, 1096, 1161, 1229, 1298, 1370, 1444, 1521, 1600, 1681,
    1764, 1850, 1938, 2029, 2122, 2217, 2315, 2416, 2519, 2624, 2732, 2843,
    2956, 3071, 3190, 3310, 3434, 3560, 3689, 3820, 3955, 4092, 4231, 4374,
    4519, 4667, 4817, 4971, 5127, 5286, 5448, 5613, 5781, 5951, 6125, 6301,
    6480, 6663, 6848, 7036, 7227, 7421, 7619, 7819, 8022, 8228, 8438, 8650,
    8866, 9084, 9306, 9531, 9759, 9990, 10224, 10462, 10702, 10946, 11193, 11444,
    11697, 11954, 12214, 12477, 12744, 13014, 13287, 13563, 13843, 14126, 14413, 14703,
    14996, 15293, 15593, 15896, 16203, 16513, 16827, 17144, 17465, 17789, 18116, 18447,
    18782, 19120, 19462, 19807, 20156, 20508, 20864, 21223, 21586, 21953, 22323, 22697,
    23074, 23455, 23840, 24228, 24620, 25016, 25415, 25818, 26225, 26636, 27050, 27468,
    27889, 28315, 28744, 29177, 29614, 30054, 30499, 30947, 31399, 31855, 32314, 32778,
    33245, 33716, 34191, 34670, 35153, 35640, 36131, 36625, 37124, 37626, 38133, 38643,
    39157, 39676, 40198, 40724, 41254, 41789, 42327, 42869, 43415, 43966, 44520, 45079,
    45641, 46208, 46778, 47353, 47932, 48515, 49102, 49693, 50289, 50888, 51492, 52100,
    52712, 53328, 53948, 54572, 55201, 55834, 56471, 57112, 57758, 58408, 59062, 59720,
    60383, 61050, 61721, 62396, 63076, 63760, 64448, 65141, 65837, 66539, 67244, 67954,
    68669, 69387, 70110, 70838, 71569, 72306, 73046, 73791, 74540, 75294, 76052, 76815,
    77582, 78354, 79130, 79910, 80695, 81485, 82279, 83077, 83880, 84687, 85499, 86316,
    87137, 87962, 88792, 89627, 90466, 91310, 92158, 93011, 93869, 94731, 95597, 96469,
    97345, 98225, 99110, 100000
>>

\* 0.2126 r + 0.7152 g + 0.0722 b in units of 1/10000 (rounded)
getRelativeLuminance(rgb) ==
    (2126 * Linearized[rgb.r + 1] + 7152 * Linearized[rgb.g + 1]
       + 722 * Linearized[rgb.b + 1] + 50000) \div 100000

\* getContrastRatio that divides the first luminance by the second
getContrastRatioInOrder(rgb1, rgb2) ==
    Rat(getRelativeLuminance(rgb1) + 500, getRelativeLuminance(rgb2) + 500)

\* (lighter + 0.05) / (darker + 0.05)
getContrastRatio(rgb1, rgb2) ==
    LET l1 == getRelativeLuminance(rgb1)
        l2 == getRelativeLuminance(rgb2)
    IN  Rat(Max2(l1, l2) + 500, Min2(l1, l2) + 500)

-----------------------------------------------------------------------------
(* Colour science: HSL (colorHarmony.ts) *)

RatSub(x, y) == RatAdd(x, Rat(-y.n, y.d))
RatMin(x, y) == IF RatLeq(x, y) THEN x ELSE y
RatMax(x, y) == IF RatLeq(x, y) THEN y ELSE x

\* Math.round of a fraction >= 0
RatRound(x) == (2 * x.n + x.d) \div (2 * x.d)

\* h in degrees, s and l in [0, 1], all as fractions
rgbToHsl(rgb) ==
    LET max == Max3(rgb.r, rgb.g, rgb.b)
        min == Min3(rgb.r, rgb.g, rgb.b)
        d   == max - min
        l   == Rat(max + min, 510)
        s   == IF max = min THEN RatInt(0)
               ELSE IF max + min > 255 THEN Rat(d, 510 - max - min)
               ELSE Rat(d, max + min)
        h   == IF max = min THEN RatInt(0)
               ELSE IF max = rgb.r
                    THEN Rat(rgb.g - rgb.b + (IF rgb.g < rgb.b THEN 6 * d ELSE 0), 6 * d)
               ELSE IF max = rgb.g
                    THEN Rat(rgb.b - rgb.r + 2 * d, 6 * d)
               ELSE Rat(rgb.r - rgb.g + 4 * d, 6 * d)
    IN  [h |-> RatMul(h, RatInt(360)), s |-> s, l |-> l]

hue2rgb(p, q, t0) ==
    LET t1 == IF RatLess(t0, RatInt(0)) THEN RatAdd(t0, RatInt(1)) ELSE t0
        t  == IF RatLess(RatInt(1), t1) THEN RatSub(t1, RatInt(1)) ELSE t1
    IN  IF RatLess(t, Rat(1, 6))
        THEN RatAdd(p, RatMul(RatMul(RatSub(q, p), RatInt(6)), t))
        ELSE IF RatLess(t, Rat(1, 2)) THEN q
        ELSE IF RatLess(t, Rat(2, 3))
        THEN RatAdd(p, RatMul(RatMul(RatSub(q, p), RatSub(Rat(2, 3), t)), RatInt(6)))
        ELSE p

\* The channels are rounded from exact fractions.  Where the exact value is
\* a half the double computation of the code can land just below it (0.85 and
\* 1.15 are not doubles), so a channel of createSoftGradient may be one less in
\* the code than here; text and background colours are not affected.
hslToRgb(hsl) ==
    LET hue == RatMul(hsl.h, Rat(1, 360))
        s   == hsl.s
        l   == hsl.l
        q   == IF RatLess(l, Rat(1, 2))
               THEN RatMul(l, RatAdd(RatInt(1), s))
               ELSE RatSub(RatAdd(l, s), RatMul(l, s))
        p   == RatSub(RatMul(RatInt(2), l), q)
        ch(t) == RatRound(RatMul(hue2rgb(p, q, t), RatInt(255)))
    IN  IF s = RatInt(0)
        THEN LET val == RatRound(RatMul(l, RatInt(255))) IN RGBOf(val, val, val)
        ELSE RGBOf(ch(RatAdd(hue, Rat(1, 3))), ch(hue), ch(RatSub(hue, Rat(1, 3))))

-----------------------------------------------------------------------------
(* Banner colours (colorHarmony.ts) *)

White == RGBOf(255, 255, 255)
Black == RGBOf(0, 0, 0)

\* The lightness values of the two probe loops, in twentieths.  In double
\* precision for (l = 1; l >= 0.5; l -= 0.05) runs 10 times (its last value
\* is 0.5499999999999996) and for (l = 0; l <= 0.5; l += 0.05) runs 11 times
\* (its last value is 0.49999999999999994).
DarkBackgroundScan == <<20, 19, 18, 17, 16, 15, 14, 13, 12, 11>>
LightBackgroundScan == <<0, 1, 2, 3, 4, 5, 6, 7, 8, 9, 10>>

RECURSIVE firstReadableProbe(_, _, _, _, _, _)
firstReadableProbe(backgroundColor, minContrastRatio, hsl, scan, i, fallback) ==
    IF i > Len(scan) THEN fallback
    ELSE LET testColor == hslToRgb([h |-> hsl.h, s |-> RatMin(Rat(1, 10), hsl.s),
                                    l |-> Rat(scan[i], 20)])
         IN  IF RatLeq(minContrastRatio, getContrastRatio(backgroundColor, testColor))
             THEN testColor
             ELSE firstReadableProbe(backgroundColor, minContrastRatio, hsl, scan,
                                     i + 1, fallback)

\* a variant that returns white whenever white meets the minimum, without
\* comparing it with black
findReadableTextColorWhiteFirst(backgroundColor, minContrastRatio) ==
    IF RatLeq(minContrastRatio, getContrastRatio(backgroundColor, White))
    THEN White
    ELSE IF RatLeq(minContrastRatio, getContrastRatio(backgroundColor, Black))
    THEN Black
    ELSE IF getRelativeLuminance(backgroundColor) < 5000
    THEN firstReadableProbe(backgroundColor, minContrastRatio,
                            rgbToHsl(backgroundColor), DarkBackgroundScan, 1, White)
    ELSE firstReadableProbe(backgroundColor, minContrastRatio,
                            rgbToHsl(backgroundColor), LightBackgroundScan, 1, Black)

\* a variant whose fallback, when no probe meets the minimum, is the one of
\* white and black with the higher contrast
findReadableTextColorBetterFallback(backgroundColor, minContrastRatio) ==
    LET whiteContrast == getContrastRatio(backgroundColor, White)
        blackContrast == getContrastRatio(backgroundColor, Black)
        better        == IF RatLeq(blackContrast, whiteContrast) THEN White ELSE Black
    IN  IF RatLeq(minContrastRatio, whiteContrast) /\ RatLeq(blackContrast, whiteContrast)
        THEN White
        ELSE IF RatLeq(minContrastRatio, blackContrast)
        THEN Black
        ELSE IF getRelativeLuminance(backgroundColor) < 5000
        THEN firstReadableProbe(backgroundColor, minContrastRatio,
                                rgbToHsl(backgroundColor), DarkBackgroundScan, 1, better)
        ELSE firstReadableProbe(backgroundColor, minContrastRatio,
                                rgbToHsl(backgroundColor), LightBackgroundScan, 1, better)

findReadableTextColor(backgroundColor, minContrastRatio) ==
    LET bgLuminance   == getRelativeLuminance(backgroundColor)
        whiteContrast == getContrastRatio(backgroundColor, White)
        blackContrast == getContrastRatio(backgroundColor, Black)
    IN  IF RatLeq(minContrastRatio, whiteContrast) /\ RatLeq(blackContrast, whiteContrast)
        THEN White
        ELSE IF RatLeq(minContrastRatio, blackContrast)
        THEN Black
        ELSE IF bgLuminance < 5000
        THEN firstReadableProbe(backgroundColor, minContrastRatio,
                                rgbToHsl(backgroundColor), DarkBackgroundScan, 1, White)
        ELSE firstReadableProbe(backgroundColor, minContrastRatio,
                                rgbToHsl(backgroundColor), LightBackgroundScan, 1, Black)

\* bannerScore without the penalty for very dark and very light colours
bannerScoreNoPenalty(color, preferDark) ==
    LET hsl == rgbToHsl(color.rgb)
        s1  == color.percentage
        s2  == IF RatLess(Rat(1, 5), hsl.s) /\ RatLess(hsl.s, Rat(4, 5))
               THEN RatMul(s1, Rat(13, 10)) ELSE s1
    IN  IF preferDark /\ RatLess(hsl.l, Rat(1, 2))
        THEN RatMul(s2, Rat(6, 5))
        ELSE IF ~preferDark /\ RatLess(Rat(3, 10), hsl.l) /\ RatLess(hsl.l, Rat(7, 10))
        THEN RatMul(s2, Rat(6, 5))
        ELSE s2

\* the score of selectBannerBackground
bannerScore(color, preferDark) ==
    LET hsl == rgbToHsl(color.rgb)
        s1  == color.percentage
        s2  == IF RatLess(Rat(1, 5), hsl.s) /\ RatLess(hsl.s, Rat(4, 5))
               THEN RatMul(s1, Rat(13, 10)) ELSE s1
        s3  == IF RatLess(hsl.l, Rat(3, 20)) \/ RatLess(Rat(17, 20), hsl.l)
               THEN RatMul(s2, Rat(1, 2)) ELSE s2
    IN  IF preferDark /\ RatLess(hsl.l, Rat(1, 2))
        THEN RatMul(s3, Rat(6, 5))
        ELSE IF ~preferDark /\ RatLess(Rat(3, 10), hsl.l) /\ RatLess(hsl.l, Rat(7, 10))
        THEN RatMul(s3, Rat(6, 5))
        ELSE s3

\* scoredColors.sort((a, b) => b.score - a.score) and [0]: the position that
\* comes first when the scores are put in descending order by a stable sort,
\* the earliest position whose score no other score exceeds
bestScored(scores) ==
    CHOOSE i \in 1..Len(scores) :
       /\ \A j \in 1..Len(scores) : RatLeq(scores[j], scores[i])
       /\ \A j \in 1..(i - 1) : RatLess(scores[j], scores[i])

\* null is the empty sequence here
selectBannerBackground(cs, preferDark) ==
    IF Len(cs) = 0 THEN <<>>
    ELSE cs[bestScored([i \in 1..Len(cs) |-> bannerScore(cs[i], preferDark)])]

directionMap(direction) ==
    CASE direction = "horizontal" -> "to right"
      [] direction = "vertical"   -> "to bottom"
      [] direction = "diagonal"   -> "to bottom right"

\* a stop position (i / (n - 1)) * 100 as the template literal prints it
positionText(x) ==
    IF x.d = 1 THEN ToString(x.n) ELSE ToString(x.n) \o "/" \o ToString(x.d)

RECURSIVE joinStops(_, _)
joinStops(selectedColors, i) ==
    LET position == RatMul(Rat(i - 1, Len(selectedColors) - 1), RatInt(100))
        stop     == selectedColors[i].hex \o " " \o positionText(position) \o "%"
    IN  IF i = Len(selectedColors) THEN stop
        ELSE stop \o ", " \o joinStops(selectedColors, i + 1)

\* createGradient without the slice to three colours
createGradientAllColors(cs, direction) ==
    IF Len(cs) = 0 THEN "transparent"
    ELSE IF Len(cs) = 1 THEN cs[1].hex
    ELSE "linear-gradient(" \o directionMap(direction) \o ", "
            \o joinStops(cs, 1) \o ")"

createGradient(cs, direction) ==
    IF Len(cs) = 0 THEN "transparent"
    ELSE IF Len(cs) = 1 THEN cs[1].hex
    ELSE LET selectedColors == SubSeq(cs, 1, Min2(3, Len(cs)))
         IN  "linear-gradient(" \o directionMap(direction) \o ", "
                \o joinStops(selectedColors, 1) \o ")"

\* x % 360 for 0 <= x < 720
Mod360(x) == IF RatLess(x, RatInt(360)) THEN x ELSE RatSub(x, RatInt(360))

\* createSoftGradient: color1, a lighter and more saturated variant
softColor1(hsl) ==
    hslToRgb([h |-> hsl.h,
              s |-> RatMin(RatInt(1), RatMul(hsl.s, Rat(11, 10))),
              l |-> RatMin(Rat(9, 10), RatMul(hsl.l, Rat(23, 20)))])

\* createSoftGradient: color3, a darker variant with the hue turned by 10 degrees
softColor3(hsl) ==
    hslToRgb([h |-> Mod360(RatAdd(hsl.h, RatInt(10))),
              s |-> hsl.s,
              l |-> RatMax(Rat(1, 10), RatMul(hsl.l, Rat(17, 20)))])

\* createSoftGradient: the returned template literal
softGradientText(color1, color2, color3, direction) ==
    "linear-gradient(" \o directionMap(direction) \o ", " \o rgbToHex(color1)
       \o ", " \o rgbToHex(color2) \o ", " \o rgbToHex(color3) \o ")"

softGradientOf(hsl, baseColor, direction) ==
    softGradientText(softColor1(hsl), baseColor, softColor3(hsl), direction)

createSoftGradient(baseColor, direction) ==
    softGradientOf(rgbToHsl(baseColor), baseColor, direction)

\* an optional field that is not set
Undefined == "undefined"

\* minContrastRatio defaults to 4.5
DefaultMinContrast == Rat(9, 2)

\* bannerResult with an accent that avoids the selected background
bannerResultOtherAccent(extractedColors, selectedBg, textRgb, useGradient, gradientDirection) ==
    [background |-> selectedBg.hex,
     backgroundRgb |-> selectedBg.rgb,
     text |-> rgbToHex(textRgb),
     textRgb |-> textRgb,
     gradient |-> IF ~useGradient THEN Undefined
                  ELSE IF Len(extractedColors) >= 2
                  THEN createGradient(SubSeq(extractedColors, 1,
                                             Min2(3, Len(extractedColors))),
                                      gradientDirection)
                  ELSE createSoftGradient(selectedBg.rgb, gradientDirection),
     accent |-> IF Len(extractedColors) < 2 THEN Undefined
                ELSE IF extractedColors[2].hex = selectedBg.hex
                THEN extractedColors[1].hex
                ELSE extractedColors[2].hex]

\* generateBannerColors from const result on: the banner on the selected
\* background with its text colour
bannerResult(extractedColors, selectedBg, textRgb, useGradient, gradientDirection) ==
    [background |-> selectedBg.hex,
     backgroundRgb |-> selectedBg.rgb,
     text |-> rgbToHex(textRgb),
     textRgb |-> textRgb,
     gradient |-> IF ~useGradient THEN Undefined
                  ELSE IF Len(extractedColors) >= 2
                  THEN createGradient(SubSeq(extractedColors, 1,
                                             Min2(3, Len(extractedColors))),
                                      gradientDirection)
                  ELSE createSoftGradient(selectedBg.rgb, gradientDirection),
     accent |-> IF Len(extractedColors) >= 2
                THEN extractedColors[2].hex ELSE Undefined]

\* a variant that looks for the text colour of the first-ranked colour instead
\* of the selected background
bannerOnFirstColor(extractedColors, selectedBg, useGradient, gradientDirection) ==
    IF selectedBg = <<>>
    THEN [background |-> "#1a1a1a", backgroundRgb |-> RGBOf(26, 26, 26),
          text |-> "#ffffff", textRgb |-> RGBOf(255, 255, 255),
          gradient |-> Undefined, accent |-> Undefined]
    ELSE bannerResult(extractedColors, selectedBg,
                      findReadableTextColor(extractedColors[1].rgb, DefaultMinContrast),
                      useGradient, gradientDirection)

\* a variant that sets the gradient before it looks at selectedBg
bannerOnGradientFirst(extractedColors, selectedBg, useGradient, gradientDirection) ==
    IF selectedBg = <<>>
    THEN [background |-> "#1a1a1a", backgroundRgb |-> RGBOf(26, 26, 26),
          text |-> "#ffffff", textRgb |-> RGBOf(255, 255, 255),
          gradient |-> IF useGradient THEN createGradient(extractedColors, gradientDirection)
                       ELSE Undefined,
          accent |-> Undefined]
    ELSE bannerResult(extractedColors, selectedBg,
                      findReadableTextColor(selectedBg.rgb, DefaultMinContrast),
                      useGradient, gradientDirection)

\* generateBannerColors after selectBannerBackground returned selectedBg
bannerOn(extractedColors, selectedBg, useGradient, gradientDirection) ==
    IF selectedBg = <<>>
    THEN [background |-> "#1a1a1a", backgroundRgb |-> RGBOf(26, 26, 26),
          text |-> "#ffffff", textRgb |-> RGBOf(255, 255, 255),
          gradient |-> Undefined, accent |-> Undefined]
    ELSE bannerResult(extractedColors, selectedBg,
                      findReadableTextColor(selectedBg.rgb, DefaultMinContrast),
                      useGradient, gradientDirection)

generateBannerColors(extractedColors, preferDark, useGradient, gradientDirection) ==
    bannerOn(extractedColors, selectBannerBackground(extractedColors, preferDark),
             useGradient, gradientDirection)

-----------------------------------------------------------------------------
(* Inputs *)

\* RGBA pixels the buffers are made of: three retained colours, a translucent
\* one (alpha below 125), a near-white and a near-black one
PixelValues ==
    { RGBAOf(255, 0, 0, 255), RGBAOf(0, 0, 255, 255), RGBAOf(100, 100, 100, 255),
      RGBAOf(255, 0, 0, 124), RGBAOf(251, 255, 252, 255), RGBAOf(4, 0, 3, 255) }

Buffers == UNION {[1..n -> PixelValues] : n \in 0..MaxPixelCount}

ImageOf(data) ==
    [data |-> data, width |-> Len(data), height |-> IF Len(data) = 0 THEN 0 ELSE 1]

\* <<quality, sampleSize>>: the defaults, and two coarser samplings
SamplingChoices == { <<10, 10000>>, <<1, 2>>, <<2, 2>> }

ValidOptions ==
    { [colorCount |-> k, quality |-> qs[1], maxIterations |-> m, sampleSize |-> qs[2]] :
        k \in 1..MaxColorCount, m \in 1..MaxIterations, qs \in SamplingChoices }

-----------------------------------------------------------------------------
(* extractColorsFromImageData, step by step *)

\* kMeansClustering: const actualK
actualK == Min2(options.colorCount, Len(pixels))

\* Nothing is running: the module is loaded and no extraction was called
InitExtraction ==
    /\ pc = "idle"
    /\ imageData = ImageOf(<<>>)
    /\ options = [colorCount |-> 5, quality |-> 10, maxIterations |-> 100,
                  sampleSize |-> 10000]
    /\ pixels = <<>>
    /\ centroids = <<>>
    /\ assignments = <<>>
    /\ counts = <<>>
    /\ iteration = 0
    /\ steps = 0
    /\ rounds = 0
    /\ colors = <<>>
    /\ thrown = "none"
    /\ draws = <<>>
    /\ runs = <<>>

\* no function of colorHarmony.ts was called
InitHarmony ==
    /\ harmonyCall = "none"
    /\ bannerPalette = <<>>
    /\ bannerOptions = [preferDark |-> FALSE, useGradient |-> TRUE,
                        gradientDirection |-> "horizontal"]
    /\ bannerColors = Undefined
    /\ readableBackground = Black
    /\ readableMinContrast = DefaultMinContrast
    /\ textColor = Undefined
    /\ gradientCss = Undefined

\* a promise that no call has created yet
NoPromise == [state |-> "none", colors |-> <<>>, error |-> "", response |-> 0]

\* let worker = null, let workerSupported = null; nothing was posted
InitWorker ==
    /\ worker = "null"
    /\ workerSupported = "null"
    /\ messageListeners = <<>>
    /\ inbox = <<>>
    /\ outbox = <<>>
    /\ promises = [id \in 1..MaxCalls |-> NoPromise]
    /\ calls = 0
    /\ running = 0

\* a record of settled before any extract() call has completed
NoneSettled == [n |-> 0, outcome |-> "none", src |-> "null", colors |-> <<>>,
                mounted |-> TRUE]

\* the hook is not rendered: the initial values of useState and useRef
InitHook ==
    /\ hookPhase = "unmounted"
    /\ imageSrc = "null"
    /\ lastSrcRef = "null"
    /\ mountedRef = TRUE
    /\ hookColors = <<>>
    /\ hookBannerColors = <<>>
    /\ isLoading = FALSE
    /\ hookError = "null"
    /\ extractions = <<>>
    /\ started = 0
    /\ settled = NoneSettled
    /\ colorsSrc = "null"

Init == InitExtraction /\ InitHarmony /\ InitWorker /\ InitHook

\* extractColorsFromImageData(imageData, options) is entered: its locals are fresh
\* Enter with let assignments kept from the call before
EnterKeepsAssignments(img, opts) ==
    /\ pc = "idle"
    /\ pc' = "start"
    /\ imageData' = img
    /\ options' = opts
    /\ pixels' = <<>>
    /\ centroids' = <<>>
    /\ counts' = <<>>
    /\ iteration' = 0
    /\ steps' = 0
    /\ rounds' = 0
    /\ colors' = <<>>
    /\ thrown' = "none"
    /\ draws' = <<>>
    /\ UNCHANGED <<assignments, runs>>

Enter(img, opts) ==
    /\ pc = "idle"
    /\ pc' = "start"
    /\ imageData' = img
    /\ options' = opts
    /\ pixels' = <<>>
    /\ centroids' = <<>>
    /\ assignments' = <<>>
    /\ counts' = <<>>
    /\ iteration' = 0
    /\ steps' = 0
    /\ rounds' = 0
    /\ colors' = <<>>
    /\ thrown' = "none"
    /\ draws' = <<>>
    /\ UNCHANGED runs

\* a call with options that satisfy the documented ranges
Call ==
    /\ pc = "idle"
    /\ \E data \in Buffers, opts \in ValidOptions : Enter(ImageOf(data), opts)
    /\ UNCHANGED <<harmonyVars, workerVars, hookVars>>

\* getPixelsFromImageData and the early return on an empty sample list
Sample ==
    /\ pc = "start"
    /\ pixels' = getPixelsFromImageData(imageData, options.quality, options.sampleSize)
    /\ pc' = IF pixels' = <<>> THEN "done" ELSE "init"
    /\ UNCHANGED <<imageData, options, centroids, assignments, counts,
                   iteration, steps, rounds, colors, thrown, draws, runs>>
    /\ UNCHANGED <<harmonyVars, workerVars, hookVars>>

\* initializeCentroidsKMeansPlusPlus: the first centroid
SeedFirst ==
    /\ pc = "init"
    /\ \E firstIndex \in 1..Len(pixels) :
          /\ centroids' = <<pixels[firstIndex]>>
          /\ draws' = <<firstIndex>>
    /\ pc' = "seed"
    /\ UNCHANGED <<imageData, options, pixels, assignments, counts,
                   iteration, steps, rounds, colors, thrown, runs>>
    /\ UNCHANGED <<harmonyVars, workerVars, hookVars>>

\* one round of while (centroids.length < k)
SeedRound ==
    /\ pc = "seed"
    /\ Len(centroids) < actualK
    /\ \E random2 \in RandomDraws(seedDistances(pixels, centroids)) :
          /\ centroids' = seedRound(pixels, centroids, actualK, random2)
          /\ draws' = Append(draws, random2)
    /\ rounds' = rounds + 1
    /\ UNCHANGED <<pc, imageData, options, pixels, assignments, counts,
                   iteration, steps, colors, thrown, runs>>
    /\ UNCHANGED <<harmonyVars, workerVars, hookVars>>

\* the while loop ends; kMeansClustering enters its for loop
SeedEnd ==
    /\ pc = "seed"
    /\ ~(Len(centroids) < actualK)
    /\ pc' = "lloyd"
    /\ UNCHANGED <<imageData, options, pixels, centroids, assignments, counts,
                   iteration, steps, rounds, colors, thrown, draws, runs>>
    /\ UNCHANGED <<harmonyVars, workerVars, hookVars>>

\* one pass of the for loop of kMeansClustering
LloydIteration ==
    /\ pc = "lloyd"
    /\ iteration < options.maxIterations
    /\ steps' = steps + 1
    /\ LET newAssignments == assignToClusters(pixels, centroids)
           err == updateThrows(pixels, newAssignments, actualK)
       IN  IF assignmentsUnchanged(newAssignments, assignments)
           THEN /\ pc' = "rank"
                /\ UNCHANGED <<centroids, assignments, counts, iteration, thrown>>
           ELSE IF err # "none"
           THEN /\ pc' = "error"
                /\ thrown' = err
                /\ assignments' = newAssignments
                /\ UNCHANGED <<centroids, counts, iteration>>
           ELSE LET result == updateCentroids(pixels, newAssignments, actualK)
                IN  /\ assignments' = newAssignments
                    /\ centroids' = result.centroids
                    /\ counts' = result.counts
                    /\ iteration' = iteration + 1
                    /\ UNCHANGED <<pc, thrown>>
    /\ UNCHANGED <<imageData, options, pixels, rounds, colors, draws, runs>>
    /\ UNCHANGED <<harmonyVars, workerVars, hookVars>>

\* the for loop ends on iteration >= maxIterations
LloydEnd ==
    /\ pc = "lloyd"
    /\ ~(iteration < options.maxIterations)
    /\ pc' = "rank"
    /\ UNCHANGED <<imageData, options, pixels, centroids, assignments, counts,
                   iteration, steps, rounds, colors, thrown, draws, runs>>
    /\ UNCHANGED <<harmonyVars, workerVars, hookVars>>

\* the map / filter / sort and the return
Rank ==
    /\ pc = "rank"
    /\ colors' = buildPalette(centroids, counts)
    /\ pc' = "done"
    /\ UNCHANGED <<imageData, options, pixels, centroids, assignments, counts,
                   iteration, steps, rounds, thrown, draws, runs>>
    /\ UNCHANGED <<harmonyVars, workerVars, hookVars>>

Next == Call \/ Sample \/ SeedFirst \/ SeedRound \/ SeedEnd \/ LloydIteration
        \/ LloydEnd \/ Rank

Spec == Init /\ [][Next]_vars

-----------------------------------------------------------------------------
(* extractColorsFromImageData called again and again in one worker *)

\* red, blue and grey clustered into two colours, and one grey pixel with a
\* single iteration
RepeatRequests ==
    { [imageData |-> ImageOf(<<RGBAOf(255, 0, 0, 255), RGBAOf(0, 0, 255, 255),
                               RGBAOf(100, 100, 100, 255)>>),
       options |-> [colorCount |-> 2, quality |-> 1, maxIterations |-> 3,
                    sampleSize |-> 3]],
      [imageData |-> ImageOf(<<RGBAOf(100, 100, 100, 255)>>),
       options |-> [colorCount |-> 5, quality |-> 10, maxIterations |-> 1,
                    sampleSize |-> 10000]] }

CallRepeat ==
    /\ pc = "idle"
    /\ Len(runs) < MaxRuns
    /\ \E request \in RepeatRequests : Enter(request.imageData, request.options)
    /\ UNCHANGED <<harmonyVars, workerVars, hookVars>>

\* extractColorsFromImageData returns or throws; what its locals held is
\* out of reach from then on
Return ==
    /\ pc \in {"done", "error"}
    /\ pc' = "idle"
    /\ runs' = Append(runs, [imageData |-> imageData, options |-> options,
                             draws |-> draws, colors |-> colors, thrown |-> thrown])
    /\ UNCHANGED <<imageData, options, pixels, centroids, assignments, counts,
                   iteration, steps, rounds, colors, thrown, draws>>
    /\ UNCHANGED <<harmonyVars, workerVars, hookVars>>

RepeatNext == CallRepeat \/ Sample \/ SeedFirst \/ SeedRound \/ SeedEnd
              \/ LloydIteration \/ LloydEnd \/ Rank \/ Return

RepeatSpec == Init /\ [][RepeatNext]_vars

-----------------------------------------------------------------------------
(* The functions of colorHarmony.ts, called on their own *)

\* colours of the palettes: a saturated red, a moderately saturated red, a dark
\* blue, a pale yellow, the grey whose white and black contrasts are closest,
\* and a near-black grey
PaletteColors ==
    { RGBOf(255, 0, 0), RGBOf(200, 100, 100), RGBOf(20, 20, 60),
      RGBOf(240, 240, 200), RGBOf(118, 118, 118), RGBOf(10, 10, 10),
      RGBOf(19, 7, 7) }

Populations == {1, 2}

\* the palettes extractColorsFromImageData builds from up to MaxPaletteLen clusters
Palettes ==
    UNION { { buildPalette(cs, cnt) : cs \in [1..n -> PaletteColors],
                                      cnt \in [1..n -> Populations] } :
            n \in 0..MaxPaletteLen }

\* palettes of three and of four colours
LongPalettes ==
    { buildPalette(<<RGBOf(255, 0, 0), RGBOf(200, 100, 100), RGBOf(20, 20, 60)>>,
                   <<3, 2, 1>>),
      buildPalette(<<RGBOf(118, 118, 118), RGBOf(20, 20, 60), RGBOf(200, 100, 100)>>,
                   <<1, 1, 1>>),
      buildPalette(<<RGBOf(255, 0, 0), RGBOf(200, 100, 100), RGBOf(20, 20, 60),
                     RGBOf(240, 240, 200)>>, <<1, 2, 3, 4>>),
      buildPalette(<<RGBOf(200, 100, 100), RGBOf(255, 0, 0), RGBOf(240, 240, 200),
                     RGBOf(19, 7, 7)>>, <<1, 1, 1, 1>>) }

\* every grey and a 6 x 6 x 6 grid over the colour cube
Backgrounds ==
    { RGBOf(v, v, v) : v \in 0..255 }
        \cup { RGBOf(51 * r, 51 * g, 51 * b) : r \in 0..5, g \in 0..5, b \in 0..5 }

\* backgrounds whose relative luminance lies just below 0.5
NearMidBackgrounds == { RGBOf(180, 180, 255), RGBOf(204, 173, 252) }

\* the palettes of a single colour
SingleColorPalettes == { buildPalette(<<c>>, <<1>>) : c \in Backgrounds }

BannerOptions ==
    [preferDark : BOOLEAN, useGradient : BOOLEAN,
     gradientDirection : {"horizontal", "vertical", "diagonal"}]

\* minimum ratios: none, large text (AA), body text (AA), AAA, black on white,
\* and one no pair of colours reaches
MinContrastChoices == { Rat(1, 1), Rat(3, 1), Rat(9, 2), Rat(7, 1), Rat(21, 1), Rat(22, 1) }

\* generateBannerColors(extractedColors, options) is called and returns
GenerateBannerColors ==
    /\ harmonyCall = "none"
    /\ \E palette \in Palettes \cup SingleColorPalettes \cup LongPalettes,
          opts \in BannerOptions :
          /\ bannerPalette' = palette
          /\ bannerOptions' = opts
          /\ bannerColors' = generateBannerColors(palette, opts.preferDark,
                                                  opts.useGradient, opts.gradientDirection)
    /\ harmonyCall' = "generateBannerColors"
    /\ UNCHANGED <<readableBackground, readableMinContrast, textColor, gradientCss>>
    /\ UNCHANGED <<kmVars, workerVars, hookVars>>

\* findReadableTextColor(backgroundColor, minContrastRatio) is called and returns
FindReadableTextColor ==
    /\ harmonyCall = "none"
    /\ \E bg \in Backgrounds \cup PaletteColors \cup NearMidBackgrounds,
          ratio \in MinContrastChoices :
          /\ readableBackground' = bg
          /\ readableMinContrast' = ratio
          /\ textColor' = findReadableTextColor(bg, ratio)
    /\ harmonyCall' = "findReadableTextColor"
    /\ UNCHANGED <<bannerPalette, bannerOptions, bannerColors, gradientCss>>
    /\ UNCHANGED <<kmVars, workerVars, hookVars>>

\* createGradient(colors, direction) is called and returns
CreateGradient ==
    /\ harmonyCall = "none"
    /\ \E palette \in Palettes \cup LongPalettes,
          direction \in {"horizontal", "vertical", "diagonal"} :
          /\ bannerPalette' = palette
          /\ bannerOptions' = [bannerOptions EXCEPT !.gradientDirection = direction]
          /\ gradientCss' = createGradient(palette, direction)
    /\ harmonyCall' = "createGradient"
    /\ UNCHANGED <<bannerColors, readableBackground, readableMinContrast, textColor>>
    /\ UNCHANGED <<kmVars, workerVars, hookVars>>

\* the caller has taken the result; the functions keep no state between calls
HarmonyReturn ==
    /\ harmonyCall # "none"
    /\ harmonyCall' = "none"
    /\ bannerPalette' = <<>>
    /\ bannerOptions' = [preferDark |-> FALSE, useGradient |-> TRUE,
                         gradientDirection |-> "horizontal"]
    /\ bannerColors' = Undefined
    /\ readableBackground' = Black
    /\ readableMinContrast' = DefaultMinContrast
    /\ textColor' = Undefined
    /\ gradientCss' = Undefined
    /\ UNCHANGED <<kmVars, workerVars, hookVars>>

HarmonyNext == GenerateBannerColors \/ FindReadableTextColor \/ CreateGradient
               \/ HarmonyReturn

HarmonySpec == Init /\ [][HarmonyNext]_vars

-----------------------------------------------------------------------------
(* extractColorsFromImageData called with any option values: the code has
   no check of the options *)

\* colorCount and maxIterations, <<quality, sampleSize>>: in and out of range
OptionValues == {-1, 0, 1, 2}

AnySamplingChoices ==
    { <<10, 10000>>, <<1, 2>>, <<0, 10000>>, <<-1, 2>>, <<1, 0>>, <<0, 0>>,
      <<-1, 0>>, <<1, -1>>, <<-1, -1>> }

AnyOptions ==
    { [colorCount |-> k, quality |-> qs[1], maxIterations |-> m, sampleSize |-> qs[2]] :
        k \in OptionValues, m \in OptionValues, qs \in AnySamplingChoices }

\* a call whose options the caller did not restrict
CallAny ==
    /\ pc = "idle"
    /\ \E data \in {d \in Buffers : Len(d) < MaxPixelCount}, opts \in AnyOptions :
          Enter(ImageOf(data), opts)
    /\ UNCHANGED <<harmonyVars, workerVars, hookVars>>

AnyOptionsNext == CallAny \/ Sample \/ SeedFirst \/ SeedRound \/ SeedEnd
                  \/ LloydIteration \/ LloydEnd \/ Rank

AnyOptionsSpec == Init /\ [][AnyOptionsNext]_vars

-----------------------------------------------------------------------------
(* extractColorsWithWorker (main thread) and self.onmessage (worker) *)

\* the requests the calls are made with: two pixels clustered into two
\* colours in one iteration, one grey pixel with the default options, an
\* empty image, and one grey pixel with colorCount -1 (the options are passed
\* on as they come)
WorkerRequests ==
    { [imageData |-> ImageOf(<<RGBAOf(255, 0, 0, 255), RGBAOf(0, 0, 255, 255)>>),
       options |-> [colorCount |-> 2, quality |-> 1, maxIterations |-> 1,
                    sampleSize |-> 2]],
      [imageData |-> ImageOf(<<RGBAOf(100, 100, 100, 255)>>),
       options |-> [colorCount |-> 5, quality |-> 10, maxIterations |-> 100,
                    sampleSize |-> 10000]],
      [imageData |-> ImageOf(<<>>),
       options |-> [colorCount |-> 5, quality |-> 10, maxIterations |-> 100,
                    sampleSize |-> 10000]],
      [imageData |-> ImageOf(<<RGBAOf(100, 100, 100, 255)>>),
       options |-> [colorCount |-> -1, quality |-> 10, maxIterations |-> 100,
                    sampleSize |-> 10000]] }

\* getWorker: the values of worker and workerSupported it leaves, and the
\* value w it returns.  defined is typeof Worker !== 'undefined', constructed
\* is whether new Worker(...) returns rather than throws.
getWorker(defined, constructed) ==
    LET supported == IF workerSupported # "null" THEN workerSupported
                     ELSE IF defined THEN "true" ELSE "false"
    IN  IF supported = "false"
        THEN [worker |-> worker, workerSupported |-> supported, w |-> "null"]
        ELSE IF worker # "null"
        THEN [worker |-> worker, workerSupported |-> supported, w |-> worker]
        ELSE IF constructed
        THEN [worker |-> "worker", workerSupported |-> supported, w |-> "worker"]
        ELSE [worker |-> "null", workerSupported |-> "false", w |-> "null"]

\* handleMessage as it would be if an empty colour list counted as no result
handleMessageNonEmpty(e) ==
    IF e.type = "result" /\ e.colors # <<>>
    THEN [state |-> "resolved", colors |-> e.colors, error |-> "", response |-> e.request]
    ELSE [state |-> "rejected", colors |-> <<>>, error |-> "Unknown error",
          response |-> e.request]

\* handleMessage on the event e: the promise it settles.  response records
\* the call whose request the event answers.
handleMessage(e) ==
    IF e.type = "result"
    THEN [state |-> "resolved", colors |-> e.colors, error |-> "", response |-> e.request]
    ELSE [state |-> "rejected", colors |-> <<>>, error |-> e.error, response |-> e.request]

\* handleError on the worker's error event: the promise it settles
handleError(message) ==
    [state |-> "rejected", colors |-> <<>>, error |-> message, response |-> 0]

\* extractColorsWithWorker(imageData, options) up to its return of the promise
ExtractColorsWithWorker ==
    /\ calls < MaxCalls
    /\ calls' = calls + 1
    /\ \E request \in WorkerRequests, defined \in BOOLEAN, constructed \in BOOLEAN :
          LET got == getWorker(defined, constructed)
              id  == calls + 1
          IN  /\ worker' = got.worker
              /\ workerSupported' = got.workerSupported
              /\ IF got.w = "null"
                 THEN /\ promises' = [promises EXCEPT ![id] =
                                        [state |-> "rejected", colors |-> <<>>,
                                         error |-> "Web Worker not supported",
                                         response |-> 0]]
                      /\ UNCHANGED <<messageListeners, inbox>>
                 ELSE /\ promises' = [promises EXCEPT ![id] =
                                        [state |-> "pending", colors |-> <<>>,
                                         error |-> "", response |-> 0]]
                      /\ messageListeners' = Append(messageListeners, id)
                      /\ inbox' = Append(inbox, [type |-> "extract",
                                                 imageData |-> request.imageData,
                                                 options |-> request.options,
                                                 call |-> id])
    /\ UNCHANGED <<outbox, running>>
    /\ UNCHANGED <<kmVars, harmonyVars, hookVars>>

\* self.onmessage takes the next message and enters extractColorsFromImageData
WorkerOnMessage ==
    /\ worker = "worker"
    /\ running = 0
    /\ inbox # <<>>
    /\ Head(inbox).type = "extract"
    /\ Enter(Head(inbox).imageData, Head(inbox).options)
    /\ running' = Head(inbox).call
    /\ inbox' = Tail(inbox)
    /\ UNCHANGED <<worker, workerSupported, messageListeners, outbox, promises, calls>>
    /\ UNCHANGED <<harmonyVars, hookVars>>

\* self.onmessage posts the response: the palette, or the caught error
WorkerPostMessage ==
    /\ running # 0
    /\ pc \in {"done", "error"}
    /\ outbox' = Append(outbox, [type |-> IF pc = "done" THEN "result" ELSE "error",
                                 colors |-> colors, error |-> thrown,
                                 request |-> running])
    /\ running' = 0
    /\ pc' = "idle"
    /\ imageData' = ImageOf(<<>>)
    /\ options' = [colorCount |-> 5, quality |-> 10, maxIterations |-> 100,
                   sampleSize |-> 10000]
    /\ pixels' = <<>>
    /\ centroids' = <<>>
    /\ assignments' = <<>>
    /\ counts' = <<>>
    /\ iteration' = 0
    /\ steps' = 0
    /\ rounds' = 0
    /\ colors' = <<>>
    /\ thrown' = "none"
    /\ draws' = <<>>
    /\ UNCHANGED runs
    /\ UNCHANGED <<worker, workerSupported, messageListeners, inbox, promises, calls>>
    /\ UNCHANGED <<harmonyVars, hookVars>>

\* the main thread dispatches the worker's next 'message' event: every
\* registered handleMessage runs on it, removes its two listeners and settles
\* its promise
DispatchMessage ==
    /\ outbox # <<>>
    /\ promises' = [id \in 1..MaxCalls |->
                      IF \E i \in 1..Len(messageListeners) : messageListeners[i] = id
                      THEN handleMessage(Head(outbox))
                      ELSE promises[id]]
    /\ messageListeners' = <<>>
    /\ outbox' = Tail(outbox)
    /\ UNCHANGED <<worker, workerSupported, inbox, calls, running>>
    /\ UNCHANGED <<kmVars, harmonyVars, hookVars>>

\* the worker raises an 'error' event (its script fails): every registered
\* handleError runs on it, removes its two listeners and rejects its promise
DispatchError ==
    /\ worker = "worker"
    /\ messageListeners # <<>>
    /\ promises' = [id \in 1..MaxCalls |->
                      IF \E i \in 1..Len(messageListeners) : messageListeners[i] = id
                      THEN handleError("Script error")
                      ELSE promises[id]]
    /\ messageListeners' = <<>>
    /\ UNCHANGED <<worker, workerSupported, inbox, outbox, calls, running>>
    /\ UNCHANGED <<kmVars, harmonyVars, hookVars>>

\* terminateWorker() while a worker exists: worker.terminate() stops the
\* worker's script, discards the messages it has not handled and the
\* responses not yet dispatched, and the module forgets the instance.  The
\* listeners the pending calls added stay on the terminated Worker object,
\* which fires no further event; the next getWorker constructs a new Worker
\* with no listeners.
TerminateWorker ==
    /\ worker = "worker"
    /\ worker' = "null"
    /\ messageListeners' = <<>>
    /\ inbox' = <<>>
    /\ outbox' = <<>>
    /\ running' = 0
    /\ pc' = "idle"
    /\ imageData' = ImageOf(<<>>)
    /\ options' = [colorCount |-> 5, quality |-> 10, maxIterations |-> 100,
                   sampleSize |-> 10000]
    /\ pixels' = <<>>
    /\ centroids' = <<>>
    /\ assignments' = <<>>
    /\ counts' = <<>>
    /\ iteration' = 0
    /\ steps' = 0
    /\ rounds' = 0
    /\ colors' = <<>>
    /\ thrown' = "none"
    /\ draws' = <<>>
    /\ UNCHANGED runs
    /\ UNCHANGED <<workerSupported, promises, calls>>
    /\ UNCHANGED <<harmonyVars, hookVars>>

WorkerNext == ExtractColorsWithWorker \/ WorkerOnMessage \/ Sample \/ SeedFirst
              \/ SeedRound \/ SeedEnd \/ LloydIteration \/ LloydEnd \/ Rank
              \/ WorkerPostMessage \/ DispatchMessage \/ DispatchError
              \/ TerminateWorker

WorkerSpec == Init /\ [][WorkerNext]_vars

-----------------------------------------------------------------------------
(* useColorExtraction: one instance of the hook, rendered with the default
   options.  extractColors is the awaited collaborator: it resolves with a
   palette or rejects. *)

HookSources == {"a.png", "b.png"}

\* the palettes extractColors resolves with: none, one colour, two colours
HookPalettes ==
    { <<>>, buildPalette(<<RGBOf(255, 0, 0)>>, <<1>>),
      buildPalette(<<RGBOf(200, 100, 100), RGBOf(20, 20, 60)>>, <<2, 1>>) }

\* the error the catch block stores: a rejection that is not an Error (the
\* Event of img.onerror) becomes 'Color extraction failed', an Error is kept
HookFailures == {"Color extraction failed", "SecurityError"}

\* extract() up to its await, or to its return when imageSrc is null
extract(src) ==
    IF src = "null"
    THEN /\ hookColors' = <<>>
         /\ hookBannerColors' = <<>>
         /\ colorsSrc' = "null"
         /\ UNCHANGED <<isLoading, hookError, extractions, started>>
    ELSE /\ started < MaxExtractions
         /\ isLoading' = TRUE
         /\ hookError' = "null"
         /\ extractions' = Append(extractions, [id |-> started + 1, src |-> src])
         /\ started' = started + 1
         /\ UNCHANGED <<hookColors, hookBannerColors, colorsSrc>>

\* the body of useEffect in a render whose imageSrc is src
runEffect(src) ==
    /\ mountedRef' = TRUE
    /\ IF src # lastSrcRef
       THEN /\ lastSrcRef' = src
            /\ extract(src)
       ELSE UNCHANGED <<lastSrcRef, hookColors, hookBannerColors, isLoading,
                        hookError, extractions, started, colorsSrc>>

\* the first render and its effect
HookMount ==
    /\ hookPhase = "unmounted"
    /\ hookPhase' = "mounted"
    /\ \E src \in HookSources \cup {"null"} :
          /\ imageSrc' = src
          /\ runEffect(src)
    /\ UNCHANGED settled
    /\ UNCHANGED <<kmVars, harmonyVars, workerVars>>

\* a render with another imageSrc: the cleanup of the effect, then the effect
HookSetImageSrc ==
    /\ hookPhase = "mounted"
    /\ \E src \in (HookSources \cup {"null"}) \ {imageSrc} :
          /\ imageSrc' = src
          /\ runEffect(src)
    /\ UNCHANGED <<hookPhase, settled>>
    /\ UNCHANGED <<kmVars, harmonyVars, workerVars>>

\* refresh()
HookRefresh ==
    /\ hookPhase = "mounted"
    /\ extract(imageSrc)
    /\ UNCHANGED <<hookPhase, imageSrc, lastSrcRef, mountedRef, settled>>
    /\ UNCHANGED <<kmVars, harmonyVars, workerVars>>

\* the component unmounts: the cleanup of the effect
HookUnmount ==
    /\ hookPhase = "mounted"
    /\ hookPhase' = "gone"
    /\ mountedRef' = FALSE
    /\ UNCHANGED <<imageSrc, lastSrcRef, hookColors, hookBannerColors, isLoading,
                   hookError, extractions, started, settled, colorsSrc>>
    /\ UNCHANGED <<kmVars, harmonyVars, workerVars>>

\* the sequence without its element i
RemoveAt(seq, i) == SubSeq(seq, 1, i - 1) \o SubSeq(seq, i + 1, Len(seq))

\* extractColors resolves: extract() runs from its await to its end
ExtractionResolves ==
    /\ \E i \in 1..Len(extractions), palette \in HookPalettes :
          /\ extractions' = RemoveAt(extractions, i)
          /\ settled' = [n |-> settled.n + 1, outcome |-> "resolved",
                         src |-> extractions[i].src, colors |-> palette,
                         mounted |-> mountedRef]
          /\ IF mountedRef
             THEN /\ hookColors' = palette
                  /\ hookBannerColors' =
                        generateBannerColors(palette, FALSE, TRUE, "horizontal")
                  /\ isLoading' = FALSE
                  /\ colorsSrc' = extractions[i].src
             ELSE UNCHANGED <<hookColors, hookBannerColors, isLoading, colorsSrc>>
    /\ UNCHANGED <<hookPhase, imageSrc, lastSrcRef, mountedRef, hookError, started>>
    /\ UNCHANGED <<kmVars, harmonyVars, workerVars>>

\* extractColors rejects: the catch and finally blocks of extract()
ExtractionRejects ==
    /\ \E i \in 1..Len(extractions), message \in HookFailures :
          /\ extractions' = RemoveAt(extractions, i)
          /\ settled' = [n |-> settled.n + 1, outcome |-> "rejected",
                         src |-> extractions[i].src, colors |-> <<>>,
                         mounted |-> mountedRef]
          /\ IF mountedRef
             THEN /\ hookError' = message
                  /\ isLoading' = FALSE
             ELSE UNCHANGED <<hookError, isLoading>>
    /\ UNCHANGED <<hookPhase, imageSrc, lastSrcRef, mountedRef, hookColors,
                   hookBannerColors, started, colorsSrc>>
    /\ UNCHANGED <<kmVars, harmonyVars, workerVars>>

HookNext == HookMount \/ HookSetImageSrc \/ HookRefresh \/ HookUnmount
            \/ ExtractionResolves \/ ExtractionRejects

HookSpec == Init /\ [][HookNext]_vars

\* The worker interface and the hook together.  The hook awaits the
\* main-thread extractColors and nothing in the repository calls
\* extractColorsWithWorker, so the two share no state: a behaviour runs the
\* one or the other.
ReportNext == \/ hookPhase = "unmounted" /\ WorkerNext
              \/ calls = 0 /\ HookNext

ReportSpec == Init /\ [][ReportNext]_vars

-----------------------------------------------------------------------------
(* Properties of the extraction *)

validOptions ==
    /\ options.colorCount >= 1 /\ options.maxIterations >= 1
    /\ options.quality >= 1 /\ options.sampleSize >= 1

\* C1: for a non-empty sample list of size n and k >= 1, maxIterations >= 1,
\* the seeding hands exactly min(k, n) centroids to the Lloyd loop,
\* kMeansClustering returns exactly min(k, n) centroids (and as many counts)
\* without throwing, and the returned palette has between 1 and min(k, n)
\* entries.
C1_ClusterCount ==
    (validOptions /\ pixels # <<>>) =>
        /\ pc # "error"
        /\ pc = "lloyd" => Len(centroids) = Min2(options.colorCount, Len(pixels))
        /\ pc = "rank" =>
              /\ Len(centroids) = Min2(options.colorCount, Len(pixels))
              /\ Len(counts) = Min2(options.colorCount, Len(pixels))
        /\ pc = "done" =>
              /\ Len(colors) >= 1
              /\ Len(colors) <= Min2(options.colorCount, Len(pixels))

\* the palette reaches min(k, n) where the sample count is the smaller one
C1_Witness ==
    /\ pc = "done" /\ Len(pixels) = 2 /\ options.colorCount = 3
    /\ Len(colors) = 2

\* a termination measure: the steps the extraction can still take
Measure ==
    CASE pc = "idle"  -> options.colorCount + options.maxIterations + 1000
      [] pc = "start" -> options.colorCount + options.maxIterations + 5
      [] pc = "init"  -> options.colorCount + options.maxIterations + 4
      [] pc = "seed"  -> Max2(0, actualK - Len(centroids)) + options.maxIterations + 3
      [] pc = "lloyd" -> Max2(0, options.maxIterations - iteration) + 2
      [] pc = "rank"  -> 1
      [] OTHER        -> 0

\* the state conditions under which some step of the extraction can be taken
CanStep ==
    \/ pc \in {"idle", "start", "lloyd", "rank"}
    \/ pc = "init" /\ Len(pixels) >= 1
    \/ pc = "seed" /\ RandomDraws(seedDistances(pixels, centroids)) # {}

\* C6: clustering always terminates: every seeding round adds at least one
\* centroid, at most maxIterations assignment steps are made, and every step
\* of the extraction strictly decreases a natural-number measure while a step
\* exists in every state short of the return.
C6_Terminates ==
    /\ [][rounds' # rounds => Len(centroids') > Len(centroids)]_vars
    /\ [](steps <= options.maxIterations)
    /\ [](Measure >= 0)
    /\ [][Measure' < Measure]_vars
    /\ [](pc \notin {"done", "error"} => CanStep)

\* the Lloyd loop used all of its maxIterations = 3 passes, after two rounds of seeding
C6_Witness ==
    /\ pc = "done" /\ steps = 3 /\ options.maxIterations = 3
    /\ Len(centroids) = 3

\* C2: after every Lloyd iteration the populations sum to the number of
\* samples, each count being the number of samples assigned to the cluster,
\* and the percentages of the returned colours sum to 100.
RECURSIVE RatSum(_)
RatSum(xs) == IF xs = <<>> THEN RatInt(0) ELSE RatAdd(Head(xs), RatSum(Tail(xs)))

C2_PopulationsSum ==
    validOptions =>
        /\ (pc \in {"lloyd", "rank", "done"} /\ iteration >= 1) =>
              /\ SumSeq(counts) = Len(pixels)
              /\ \A c \in 1..Len(counts) :
                    counts[c] = Cardinality({i \in 1..Len(pixels) : assignments[i] = c})
        /\ (pc = "done" /\ colors # <<>>) =>
              /\ RatSum([i \in 1..Len(colors) |-> colors[i].percentage]) = RatInt(100)
              /\ SumSeq([i \in 1..Len(colors) |-> colors[i].population]) = Len(pixels)
              /\ \A i \in 1..Len(colors) :
                    colors[i].percentage = Rat(colors[i].population * 100, Len(pixels))

\* a palette of two colours over three samples, one cluster left empty
C2_Witness ==
    /\ pc = "done" /\ Len(pixels) = 3 /\ Len(colors) = 2
    /\ \E c \in 1..Len(counts) : counts[c] = 0

\* C7: if all retained samples have the same RGB value the palette is exactly
\* one colour, that value, with the whole sample count and 100 percent.
C7_UniformImage ==
    (/\ pc = "done" /\ validOptions /\ pixels # <<>>
     /\ \A i \in 1..Len(pixels) : pixels[i] = pixels[1]) =>
        /\ Len(colors) = 1
        /\ colors[1].rgb = pixels[1]
        /\ colors[1].hex = rgbToHex(pixels[1])
        /\ colors[1].population = Len(pixels)
        /\ colors[1].percentage = RatInt(100)

\* three identical red samples clustered with colorCount = 3
C7_Witness ==
    /\ pc = "done" /\ options.colorCount = 3
    /\ pixels = <<RGBOf(255, 0, 0), RGBOf(255, 0, 0), RGBOf(255, 0, 0)>>
    /\ Len(centroids) = 3

\* the positions of the buffer the sampler visits (1-based)
visitedIndices ==
    LET step == Max2(1, (Len(imageData.data) \div options.sampleSize) * options.quality)
    IN  {i \in 1..Len(imageData.data) : (i - 1) % step = 0}

\* C9: for valid options the returned palette is empty if and only if the
\* sampler retained no pixel, that is every visited pixel is transparent,
\* near-white or near-black (or the buffer is empty); no error is raised.
C9_EmptyIffNoSample ==
    (pc \in {"done", "error"} /\ validOptions) =>
        /\ pc = "done" /\ thrown = "none"
        /\ (colors = <<>>) <=> (pixels = <<>>)
        /\ (colors = <<>>) <=>
              \A i \in visitedIndices :
                 LET p == imageData.data[i]
                 IN  \/ p.a < 125
                     \/ p.r > 250 /\ p.g > 250 /\ p.b > 250
                     \/ p.r < 5 /\ p.g < 5 /\ p.b < 5

\* a buffer of a transparent, a near-white and a near-black pixel
C9_Witness ==
    /\ pc = "done" /\ colors = <<>> /\ Len(imageData.data) = 3
    /\ \E i \in 1..3 : imageData.data[i].a < 125
    /\ \E i \in 1..3 : imageData.data[i].r > 250 /\ imageData.data[i].a >= 125
    /\ \E i \in 1..3 : imageData.data[i].r < 5

\* the pixel passes the three tests of the sampler
qualifies(p) ==
    /\ p.a >= 125
    /\ ~(p.r > 250 /\ p.g > 250 /\ p.b > 250)
    /\ ~(p.r < 5 /\ p.g < 5 /\ p.b < 5)

\* the pixels of the index set, in buffer order, without their alpha
inBufferOrder(indices) ==
    [j \in 1..Cardinality(indices) |->
        LET i == CHOOSE x \in indices : Cardinality({y \in indices : y <= x}) = j
        IN  RGBOf(imageData.data[i].r, imageData.data[i].g, imageData.data[i].b)]

\* C12: for valid options the sample list is exactly, in buffer order, the
\* pixels at the pixel indices 0, step, 2*step, ... with
\* step = max(1, floor(pixelCount / sampleSize) * quality) that have
\* alpha >= 125 and are neither near-white nor near-black; when pixelCount is
\* less than sampleSize every pixel of the buffer is visited.
C12_SampleList ==
    (pc \notin {"idle", "start"} /\ validOptions) =>
        /\ pixels = inBufferOrder({i \in visitedIndices : qualifies(imageData.data[i])})
        /\ Len(imageData.data) < options.sampleSize =>
              pixels = inBufferOrder({i \in 1..Len(imageData.data) :
                                        qualifies(imageData.data[i])})

\* three qualifying pixels sampled with step 2: the middle one is not visited
C12_Witness ==
    /\ pc \notin {"idle", "start"}
    /\ Len(imageData.data) = 3
    /\ options.quality = 2 /\ options.sampleSize = 2
    /\ \A i \in 1..3 : qualifies(imageData.data[i])
    /\ imageData.data[2] # imageData.data[1]
    /\ Len(pixels) = 2

\* an integer of the 8-bit range
isChannel(v) == v \in 0..255

\* C16: for valid options every centroid, and every colour of the returned
\* palette, has r, g and b channels that are integers in 0..255.
C16_ChannelRange ==
    validOptions =>
        /\ \A i \in 1..Len(centroids) :
              isChannel(centroids[i].r) /\ isChannel(centroids[i].g)
                 /\ isChannel(centroids[i].b)
        /\ \A i \in 1..Len(colors) :
              isChannel(colors[i].rgb.r) /\ isChannel(colors[i].rgb.g)
                 /\ isChannel(colors[i].rgb.b)

\* the red and the grey pixel in one cluster: the mean 177.5 is rounded to 178
C16_Witness ==
    /\ pc = "done"
    /\ Len(colors) = 1
    /\ colors[1].rgb = RGBOf(178, 50, 50)

\* C18: two extractions of the same buffer with the same options that get
\* the same random draws return the same palette (or throw the same),
\* whatever ran before them.
C18_Deterministic ==
    \A i, j \in 1..Len(runs) :
       ( /\ runs[i].imageData = runs[j].imageData
         /\ runs[i].options = runs[j].options
         /\ runs[i].draws = runs[j].draws )
       => /\ runs[i].colors = runs[j].colors
          /\ runs[i].thrown = runs[j].thrown

\* the first and the third extraction had the same input and the same two
\* draws, the second another input
C18_Witness ==
    /\ Len(runs) = 3
    /\ runs[1].imageData = runs[3].imageData
    /\ runs[1].options = runs[3].options
    /\ Len(runs[1].draws) = 2
    /\ runs[1].draws = runs[3].draws
    /\ runs[2].imageData # runs[1].imageData
    /\ Len(runs[3].colors) = 2

\* C19: the first centroid is a drawn sample and every further centroid of
\* the seeding is selected by a weighted draw of its own: while the seeding
\* runs there are as many centroids as draws were made, so the last sample
\* is never appended in place of a draw.
C19_OwnWeightedDraw ==
    (pc = "seed" /\ validOptions) => Len(centroids) = Len(draws)

\* the index of the centroid nearest to sample i, the lowest one among the
\* nearest
nearestCentroid(i) ==
    CHOOSE c \in 1..Len(centroids) :
       /\ \A d \in 1..Len(centroids) :
             colorDistanceSq(pixels[i], centroids[c]) <= colorDistanceSq(pixels[i], centroids[d])
       /\ \A d \in 1..(c - 1) :
             colorDistanceSq(pixels[i], centroids[c]) < colorDistanceSq(pixels[i], centroids[d])

\* the assignment of every sample to its nearest centroid
nearestAssignment == [i \in 1..Len(pixels) |-> nearestCentroid(i)]

\* the Lloyd loop is over, and it was left by its break
stoppedEarly == pc \in {"rank", "done"} /\ iteration < options.maxIterations

\* C20: for valid options, when the Lloyd loop stops early the centroids and
\* counts it returns are a fixed point: assigning every sample to its nearest
\* returned centroid gives exactly the returned counts.  The loop stops at
\* the first iteration whose assignment equals the one before, and without
\* such an iteration after exactly maxIterations iterations.
C20_FixedPoint ==
    /\ []( (validOptions /\ pixels # <<>> /\ pc \in {"rank", "done"}) =>
              IF stoppedEarly
              THEN /\ nearestAssignment = assignments
                   /\ \A c \in 1..Len(centroids) :
                         counts[c] = Cardinality({i \in 1..Len(pixels) :
                                                    nearestCentroid(i) = c})
                   /\ steps = iteration + 1
              ELSE steps = options.maxIterations /\ iteration = options.maxIterations )
    /\ [][ (validOptions /\ pc = "lloyd" /\ iteration < options.maxIterations) =>
              IF Len(assignments) > 0 /\ nearestAssignment = assignments
              THEN pc' = "rank" /\ centroids' = centroids /\ counts' = counts
              ELSE pc' = "lloyd" /\ iteration' = iteration + 1 ]_vars

\* stopped by the break in the third iteration: red and grey had been seeded
\* onto one centroid and were separated by the second
C20_Witness ==
    /\ pc = "done"
    /\ validOptions
    /\ iteration = 2
    /\ options.maxIterations = 3
    /\ steps = 3
    /\ Len(colors) = 3

\* the samples of cluster c in the assignment the loop made last
lastMembers(c) == {i \in 1..Len(pixels) : assignments[i] = c}

\* v is the mean of the channel ch over the samples of the set, rounded to
\* the nearest integer (a half goes up)
isRoundedMean(v, members, ch) ==
    LET n   == Cardinality(members)
        sum == channelSum(pixels, members, ch)
    IN  2 * n * v <= 2 * sum + n /\ 2 * sum + n < 2 * n * (v + 1)

\* the palette entry is the colour of cluster c
isColourOf(e, c) ==
    /\ e.population = Cardinality(lastMembers(c))
    /\ isRoundedMean(e.rgb.r, lastMembers(c), "r")
    /\ isRoundedMean(e.rgb.g, lastMembers(c), "g")
    /\ isRoundedMean(e.rgb.b, lastMembers(c), "b")

\* C21: for valid options every colour of the returned palette is the
\* rounded channel-wise mean of exactly its population many samples, those of
\* one cluster of the last assignment, however the loop stopped; every
\* cluster with a sample has its palette entry, and a cluster without one is
\* (128,128,128) with count 0 and is not in the palette.
C21_ColourOfItsPopulation ==
    (pc = "done" /\ validOptions /\ pixels # <<>>) =>
        /\ \A j \in 1..Len(colors) :
              /\ colors[j].population > 0
              /\ \E c \in 1..Len(centroids) :
                    lastMembers(c) # {} /\ isColourOf(colors[j], c)
        /\ Len(colors) = Cardinality({c \in 1..Len(centroids) : lastMembers(c) # {}})
        /\ \A c \in 1..Len(centroids) :
              IF lastMembers(c) = {}
              THEN centroids[c] = RGBOf(128, 128, 128) /\ counts[c] = 0
              ELSE \E j \in 1..Len(colors) : isColourOf(colors[j], c)

\* three clusters, the third without a sample: the palette has the rounded
\* mean of red and grey with population 2, and one more colour
C21_Witness ==
    /\ pc = "done"
    /\ validOptions
    /\ Len(centroids) = 3
    /\ lastMembers(3) = {}
    /\ Len(colors) = 2
    /\ colors[1].rgb = RGBOf(178, 50, 50)
    /\ colors[1].population = 2

\* percentage x (0.7 + 0.3 x saturation), with the saturation of the HSL form
rankingScore(e) ==
    RatMul(e.percentage, RatAdd(Rat(7, 10), RatMul(Rat(3, 10), rgbToHsl(e.rgb).s)))

\* the centroid indices with a sample
populatedClusters == {c \in 1..Len(centroids) : counts[c] > 0}

\* the palette entry is made of centroid c and its count
isEntryOf(e, c) ==
    /\ e.rgb = centroids[c]
    /\ e.population = counts[c]
    /\ e.percentage = Rat(counts[c] * 100, SumSeq(counts))

\* C22: for valid options the returned palette holds the populated
\* centroids in the order of non-increasing score
\* percentage x (0.7 + 0.3 x HSL saturation), and entries of equal score
\* stand in the order of their centroid indices.
C22_RankedByScore ==
    (pc = "done" /\ validOptions /\ pixels # <<>>) =>
        \E f \in [1..Len(colors) -> populatedClusters] :
           /\ \A c \in populatedClusters : \E j \in 1..Len(colors) : f[j] = c
           /\ \A j \in 1..Len(colors) : isEntryOf(colors[j], f[j])
           /\ \A i, j \in 1..Len(colors) :
                 i < j => /\ f[i] # f[j]
                          /\ RatLeq(rankingScore(colors[j]), rankingScore(colors[i]))
                          /\ rankingScore(colors[i]) = rankingScore(colors[j])
                                => f[i] < f[j]

\* three entries: the grey one has the lowest score and is last; red and blue
\* have equal scores and stand as their centroids do, blue before red
C22_Witness ==
    /\ pc = "done"
    /\ validOptions
    /\ Len(colors) = 3
    /\ centroids = <<RGBOf(0, 0, 255), RGBOf(100, 100, 100), RGBOf(255, 0, 0)>>
    /\ colors[1].rgb = RGBOf(0, 0, 255)
    /\ colors[2].rgb = RGBOf(255, 0, 0)
    /\ colors[3].rgb = RGBOf(100, 100, 100)

-----------------------------------------------------------------------------
(* Properties of the banner colours *)

\* C3: for every non-empty palette and every option combination the textRgb
\* that generateBannerColors returns has a WCAG contrast ratio of at least 4.5
\* against the backgroundRgb it returns, and text is the hex form of textRgb.
C3_TextContrast ==
    (harmonyCall = "generateBannerColors" /\ bannerPalette # <<>>) =>
        /\ RatLeq(Rat(9, 2),
                  getContrastRatio(bannerColors.textRgb, bannerColors.backgroundRgb))
        /\ bannerColors.text = rgbToHex(bannerColors.textRgb)
        /\ \E i \in 1..Len(bannerPalette) : bannerColors.backgroundRgb = bannerPalette[i].rgb

\* a palette of two colours whose second-ranked colour is the background, and
\* a background on which the best of white and black stays below 4.7
C3_Witness ==
    /\ harmonyCall = "generateBannerColors"
    /\ Len(bannerPalette) = 2
    /\ bannerColors.backgroundRgb = bannerPalette[2].rgb
    /\ bannerColors.backgroundRgb # bannerPalette[1].rgb
    /\ RatLess(getContrastRatio(bannerColors.textRgb, bannerColors.backgroundRgb),
               Rat(47, 10))

\* C4: whenever pure white or pure black meets the minimum contrast against
\* the background, findReadableTextColor returns the one of the two with the
\* higher contrast, white when they are equal, and the returned colour meets
\* the minimum.
C4_WhiteOrBlack ==
    harmonyCall = "findReadableTextColor" =>
        LET whiteContrast == getContrastRatio(readableBackground, White)
            blackContrast == getContrastRatio(readableBackground, Black)
        IN  (\/ RatLeq(readableMinContrast, whiteContrast)
             \/ RatLeq(readableMinContrast, blackContrast)) =>
                /\ textColor = IF RatLeq(blackContrast, whiteContrast) THEN White ELSE Black
                /\ RatLeq(readableMinContrast, getContrastRatio(readableBackground, textColor))

\* white and black both reach the minimum of 3 and black, the higher, is returned
C4_Witness ==
    /\ harmonyCall = "findReadableTextColor"
    /\ readableMinContrast = Rat(3, 1)
    /\ RatLeq(Rat(3, 1), getContrastRatio(readableBackground, White))
    /\ RatLess(getContrastRatio(readableBackground, White),
               getContrastRatio(readableBackground, Black))
    /\ textColor = Black

\* C10: on an empty palette generateBannerColors returns the default: the
\* background #1a1a1a (26, 26, 26), the text #ffffff (255, 255, 255), no
\* gradient and no accent, whatever the options are.
C10_EmptyPaletteDefault ==
    (harmonyCall = "generateBannerColors" /\ bannerPalette = <<>>) =>
        /\ bannerColors.background = "#1a1a1a"
        /\ bannerColors.backgroundRgb = RGBOf(26, 26, 26)
        /\ bannerColors.text = "#ffffff"
        /\ bannerColors.textRgb = RGBOf(255, 255, 255)
        /\ bannerColors.gradient = Undefined
        /\ bannerColors.accent = Undefined

\* the empty palette with a dark preference and a diagonal gradient asked for
C10_Witness ==
    /\ harmonyCall = "generateBannerColors"
    /\ bannerPalette = <<>>
    /\ bannerOptions = [preferDark |-> TRUE, useGradient |-> TRUE,
                        gradientDirection |-> "diagonal"]
    /\ bannerColors.background = "#1a1a1a"

\* the probe of findReadableTextColor at lightness l20 / 20
probeColor(backgroundColor, l20) ==
    LET hsl == rgbToHsl(backgroundColor)
    IN  hslToRgb([h |-> hsl.h, s |-> RatMin(Rat(1, 10), hsl.s), l |-> Rat(l20, 20)])

\* the lightness values findReadableTextColor scans for a background
probeScan(backgroundColor) ==
    IF getRelativeLuminance(backgroundColor) < 5000
    THEN DarkBackgroundScan ELSE LightBackgroundScan

\* the colour findReadableTextColor returns when no probe meets the minimum
probeFallback(backgroundColor) ==
    IF getRelativeLuminance(backgroundColor) < 5000 THEN White ELSE Black

neitherMeets(backgroundColor, minContrastRatio) ==
    /\ RatLess(getContrastRatio(backgroundColor, White), minContrastRatio)
    /\ RatLess(getContrastRatio(backgroundColor, Black), minContrastRatio)

\* findReadableTextColor returned white or black, the first probe of the
\* scan is the fallback colour, and the fallback is returned when neither
\* white nor black meets the minimum
returnsWhiteOrBlack ==
    /\ textColor \in {White, Black}
    /\ probeColor(readableBackground, probeScan(readableBackground)[1])
           = probeFallback(readableBackground)
    /\ neitherMeets(readableBackground, readableMinContrast) =>
           textColor = probeFallback(readableBackground)

\* some probe after the first has a higher contrast than the first probe
laterProbeHigher(backgroundColor) ==
    LET scan == probeScan(backgroundColor)
    IN  \E i \in 2..Len(scan) :
            RatLess(getContrastRatio(backgroundColor, probeColor(backgroundColor, scan[1])),
                    getContrastRatio(backgroundColor, probeColor(backgroundColor, scan[i])))

\* C23 (as amended): for every background and every minimum contrast ratio
\* findReadableTextColor returns pure white or pure black.  The first probe
\* of the scan is white (dark background) or black (light background), and no
\* probe has a higher contrast than the better of white and black, so that
\* no probe meets a minimum that white and black both miss; the result is
\* then white if the relative luminance of the background is below 0.5 and
\* black otherwise, even if the other one has the higher contrast.
C23_OnlyWhiteOrBlack ==
    harmonyCall = "findReadableTextColor" =>
        /\ returnsWhiteOrBlack
        /\ LET scan == probeScan(readableBackground)
               best == RatMax(getContrastRatio(readableBackground, White),
                              getContrastRatio(readableBackground, Black))
           IN  \A i \in 1..Len(scan) :
                   RatLeq(getContrastRatio(readableBackground,
                                           probeColor(readableBackground, scan[i])),
                          best)

\* neither white (1.92) nor black (10.9) reaches 21 against #b4b4ff, whose
\* luminance is just below 0.5: white is returned although black has the
\* higher contrast and the last probe, #818198, has a higher contrast than
\* white
C23_Witness ==
    /\ harmonyCall = "findReadableTextColor"
    /\ readableBackground = RGBOf(180, 180, 255)
    /\ readableMinContrast = Rat(21, 1)
    /\ neitherMeets(readableBackground, readableMinContrast)
    /\ getRelativeLuminance(readableBackground) < 5000
    /\ RatLess(getContrastRatio(readableBackground, White),
               getContrastRatio(readableBackground, Black))
    /\ probeColor(readableBackground, 11) = RGBOf(129, 129, 152)
    /\ laterProbeHigher(readableBackground)
    /\ textColor = White

\* C23 as stated: findReadableTextColor returns white or black, and no probe
\* after the first has a higher contrast than the first probe
C23_NoLaterProbeHigher ==
    harmonyCall = "findReadableTextColor" =>
        /\ returnsWhiteOrBlack
        /\ ~laterProbeHigher(readableBackground)

-----------------------------------------------------------------------------
(* Properties of the option check and of the worker dispatch *)

\* C8: an extraction called with a non-positive colorCount, quality,
\* maxIterations or sampleSize fails with a configuration error before any
\* sampling or clustering: it never gets past its entry other than by that
\* error, and no pixel is sampled.
C8_InvalidOptionsRejected ==
    (~validOptions /\ pc # "idle") =>
        /\ pc \in {"start", "error"}
        /\ pc = "error" => thrown = "ConfigurationError"
        /\ pixels = <<>>

\* C5: every promise that a worker response has settled was settled by the
\* response to its own request.  (response is 0 for a promise rejected
\* without a response: no worker, or the worker's error event.)
C5_OwnResponse ==
    \A id \in 1..MaxCalls :
        (promises[id].state \in {"resolved", "rejected"}
            /\ promises[id].response # 0) =>
            promises[id].response = id

\* a 'message' event is dispatched to the registered handlers
messageDispatched == /\ outbox # <<>> /\ outbox' = Tail(outbox)
                     /\ worker' = worker

\* an 'error' event is dispatched to the registered handlers
errorDispatched == /\ messageListeners # <<>> /\ messageListeners' = <<>>
                   /\ outbox' = outbox /\ worker' = worker

\* the call id has its listeners registered
listening(id) == \E i \in 1..Len(messageListeners) : messageListeners[i] = id

\* an extract() call of the hook completes with the given outcome
extractCompletes(outcome) ==
    settled'.n = settled.n + 1 /\ settled'.outcome = outcome

\* C11: an empty palette is reported as a success and a failure as a
\* failure.  A 'result' response, also one with an empty colour list, resolves
\* every promise it is delivered to with the colours it carries; an 'error'
\* response and a worker error event reject it.  In the hook a resolved
\* extraction leaves error as it was (null when no other extraction failed
\* before) and sets colors to the palette, also the empty one; a rejected
\* extraction of a mounted hook sets error and leaves colors and bannerColors
\* as they were.
C11_EmptyIsSuccess ==
    [][ /\ messageDispatched =>
             \A id \in 1..MaxCalls : listening(id) =>
                IF Head(outbox).type = "result"
                THEN /\ promises'[id].state = "resolved"
                     /\ promises'[id].colors = Head(outbox).colors
                ELSE promises'[id].state = "rejected"
        /\ errorDispatched =>
             \A id \in 1..MaxCalls : listening(id) => promises'[id].state = "rejected"
        /\ extractCompletes("resolved") =>
             /\ hookError' = hookError
             /\ settled.n = 0 => hookError' = "null"
             /\ settled'.mounted => hookColors' = settled'.colors
        /\ extractCompletes("rejected") =>
             /\ hookColors' = hookColors
             /\ hookBannerColors' = hookBannerColors
             /\ settled'.mounted => hookError' # "null"
      ]_vars

\* a mounted hook whose first extraction gave a palette and whose second
\* failed: error is set and the palette is still there
C11_Witness ==
    /\ settled.n = 2
    /\ settled.outcome = "rejected"
    /\ settled.mounted
    /\ hookError # "null"
    /\ hookColors # <<>>

\* the factors of the background score
saturationFactor(s) ==
    IF RatLess(Rat(1, 5), s) /\ RatLess(s, Rat(4, 5)) THEN Rat(13, 10) ELSE Rat(1, 1)

extremeFactor(l) ==
    IF RatLess(l, Rat(3, 20)) \/ RatLess(Rat(17, 20), l) THEN Rat(1, 2) ELSE Rat(1, 1)

preferenceFactor(l, preferDark) ==
    IF \/ preferDark /\ RatLess(l, Rat(1, 2))
       \/ ~preferDark /\ RatLess(Rat(3, 10), l) /\ RatLess(l, Rat(7, 10))
    THEN Rat(6, 5) ELSE Rat(1, 1)

\* the score of entry i of the palette handed to generateBannerColors
backgroundScore(i) ==
    LET hsl == rgbToHsl(bannerPalette[i].rgb)
    IN  RatMul(RatMul(RatMul(bannerPalette[i].percentage, saturationFactor(hsl.s)),
                      extremeFactor(hsl.l)),
               preferenceFactor(hsl.l, bannerOptions.preferDark))

lightnessOf(i) == rgbToHsl(bannerPalette[i].rgb).l

\* C13: for a non-empty palette the background is the palette entry of
\* maximal score (percentage, x1.3 for a saturation strictly between 0.2 and
\* 0.8, x0.5 for a lightness below 0.15 or above 0.85, x1.2 for a lightness
\* below 0.5 with preferDark or strictly between 0.3 and 0.7 without), the
\* earliest-ranked one among equal scores.  So without preferDark and with
\* equal percentages an entry of lightness below 0.15 is never chosen when
\* an entry of lightness between 0.3 and 0.7 is there.
C13_BackgroundScore ==
    (harmonyCall = "generateBannerColors" /\ bannerPalette # <<>>) =>
        /\ \E i \in 1..Len(bannerPalette) :
              /\ bannerColors.backgroundRgb = bannerPalette[i].rgb
              /\ bannerColors.background = bannerPalette[i].hex
              /\ \A j \in 1..Len(bannerPalette) :
                    RatLeq(backgroundScore(j), backgroundScore(i))
              /\ \A j \in 1..(i - 1) : RatLess(backgroundScore(j), backgroundScore(i))
        /\ ( /\ ~bannerOptions.preferDark
             /\ \A i, j \in 1..Len(bannerPalette) :
                   bannerPalette[i].percentage = bannerPalette[j].percentage
             /\ \E i \in 1..Len(bannerPalette) :
                   RatLess(Rat(3, 10), lightnessOf(i)) /\ RatLess(lightnessOf(i), Rat(7, 10)) )
           => \A i \in 1..Len(bannerPalette) :
                 RatLess(lightnessOf(i), Rat(3, 20)) =>
                    bannerColors.backgroundRgb # bannerPalette[i].rgb

\* a saturated colour of lightness 0.05 ranked first and a mid grey of the
\* same percentage ranked second: the grey is the background
C13_Witness ==
    /\ harmonyCall = "generateBannerColors"
    /\ ~bannerOptions.preferDark
    /\ Len(bannerPalette) = 2
    /\ bannerPalette[1].rgb = RGBOf(19, 7, 7)
    /\ bannerPalette[2].rgb = RGBOf(118, 118, 118)
    /\ bannerPalette[1].percentage = bannerPalette[2].percentage
    /\ bannerColors.backgroundRgb = RGBOf(118, 118, 118)

\* the direction of a linear gradient as CSS words it
towards(direction) ==
    IF direction = "horizontal" THEN "to right"
    ELSE IF direction = "vertical" THEN "to bottom"
    ELSE "to bottom right"

\* the gradient over the first min(n, 3) entries of the palette, n >= 2
gradientOver(palette, direction) ==
    "linear-gradient(" \o towards(direction) \o ", "
        \o (IF Len(palette) = 2
            THEN palette[1].hex \o " 0%, " \o palette[2].hex \o " 100%"
            ELSE palette[1].hex \o " 0%, " \o palette[2].hex \o " 50%, "
                    \o palette[3].hex \o " 100%")
        \o ")"

\* C14: for a palette of n >= 2 colours and useGradient true the gradient of
\* generateBannerColors is the linear gradient in the requested direction over
\* the first min(n, 3) ranked colours in rank order, at 0% and 100% for two
\* and at 0%, 50% and 100% for three or more; with useGradient false there is
\* no gradient.  createGradient returns that gradient for two or more
\* colours, the bare hex for one colour and 'transparent' for none.
C14_GradientStops ==
    /\ harmonyCall = "generateBannerColors" =>
          /\ ~bannerOptions.useGradient => bannerColors.gradient = Undefined
          /\ (bannerOptions.useGradient /\ Len(bannerPalette) >= 2) =>
                bannerColors.gradient =
                   gradientOver(bannerPalette, bannerOptions.gradientDirection)
    /\ harmonyCall = "createGradient" =>
          gradientCss = IF Len(bannerPalette) = 0 THEN "transparent"
                        ELSE IF Len(bannerPalette) = 1 THEN bannerPalette[1].hex
                        ELSE gradientOver(bannerPalette, bannerOptions.gradientDirection)

\* createGradient on four colours, diagonal: three stops
C14_Witness ==
    /\ harmonyCall = "createGradient"
    /\ Len(bannerPalette) = 4
    /\ bannerOptions.gradientDirection = "diagonal"
    /\ gradientCss = "linear-gradient(to bottom right, " \o bannerPalette[1].hex
                        \o " 0%, " \o bannerPalette[2].hex \o " 50%, "
                        \o bannerPalette[3].hex \o " 100%)"

\* C15: generateBannerColors sets accent if and only if the palette has at
\* least two colours, and accent is then the hex of the second-ranked entry,
\* whichever entry is the background.
C15_Accent ==
    harmonyCall = "generateBannerColors" =>
        /\ (bannerColors.accent # Undefined) <=> (Len(bannerPalette) >= 2)
        /\ Len(bannerPalette) >= 2 => bannerColors.accent = bannerPalette[2].hex

\* the second-ranked entry is the background and the accent
C15_Witness ==
    /\ harmonyCall = "generateBannerColors"
    /\ Len(bannerPalette) >= 2
    /\ bannerPalette[1].hex # bannerPalette[2].hex
    /\ bannerColors.background = bannerPalette[2].hex
    /\ bannerColors.accent = bannerColors.background

\* the colours a contrast is taken against
ContrastPartners == PaletteColors \cup {White, Black, readableBackground, textColor}

\* C17: getContrastRatio is symmetric, is 1 for identical colours, 21 for
\* black against white, and between 1 and 21 for every pair of colours;
\* getRelativeLuminance is 0 for black and 1 (10000 of its units) for white.
C17_ContrastRatio ==
    harmonyCall = "findReadableTextColor" =>
        /\ \A other \in ContrastPartners :
              /\ getContrastRatio(readableBackground, other)
                    = getContrastRatio(other, readableBackground)
              /\ RatLeq(RatInt(1), getContrastRatio(readableBackground, other))
              /\ RatLeq(getContrastRatio(readableBackground, other), RatInt(21))
        /\ getContrastRatio(readableBackground, readableBackground) = RatInt(1)
        /\ getContrastRatio(Black, White) = RatInt(21)
        /\ getContrastRatio(White, Black) = RatInt(21)
        /\ getRelativeLuminance(Black) = 0
        /\ getRelativeLuminance(White) = 10000

\* white text found for the black background: the two are 21 apart
C17_Witness ==
    /\ harmonyCall = "findReadableTextColor"
    /\ readableBackground = Black
    /\ textColor = White
    /\ getContrastRatio(readableBackground, textColor) = RatInt(21)

-----------------------------------------------------------------------------
(* Properties of useColorExtraction under overlapping extractions *)

\* every extract() call the hook started has completed
allExtractionsCompleted == extractions = <<>>

\* C24: once all started extractions have completed without an error and the
\* component is still mounted, colors and bannerColors are those of the
\* current imageSrc (empty and null for a null imageSrc): the result of an
\* extraction started for an earlier imageSrc has not overwritten them.
C24_ColorsOfCurrentSrc ==
    (hookPhase = "mounted" /\ allExtractionsCompleted /\ hookError = "null") =>
        colorsSrc = imageSrc

\* C25: while the component is mounted, isLoading is true exactly when an
\* extraction started by the hook has not yet completed: the completion of
\* one extraction does not set it to false while another one is running,
\* and it is false once none is in flight.
C25_LoadingWhileInFlight ==
    hookPhase = "mounted" => (isLoading <=> ~allExtractionsCompleted)

-----------------------------------------------------------------------------
(* Properties of the worker's life cycle *)

\* the worker still owes an event: a request waits or runs, or a response
\* waits to be dispatched
eventOutstanding ==
    worker = "worker" /\ (inbox # <<>> \/ running # 0 \/ outbox # <<>>)

\* C26: every extractColorsWithWorker call that obtained the worker settles:
\* as long as its promise is pending, its listeners are registered on the
\* live worker and an event that will run them is outstanding, also when
\* terminateWorker is called or another call is in flight.  (Only the two
\* dispatches settle a promise, and only one whose listeners are registered,
\* so a pending promise without them is pending for ever.)
C26_PendingCallSettles ==
    \A id \in 1..MaxCalls :
        promises[id].state = "pending" => (listening(id) /\ eventOutstanding)

====
